---- MODULE Spec2Model ----
(***************************************************************************)
(* Model of the multicam auto-cut engine: the transcript cleaner           *)
(* (src/src/transcript_cleaner.py), the frame rate handler                  *)
(* (src/src/frame_rate_handler.py) and the cut generator                    *)
(* (src/src/processors/cut_generator.py).                                   *)
(*                                                                          *)
(* A Python float holding a number of seconds is modelled by the exact      *)
(* rational it denotes, a pair <<n, d>> in lowest terms with d > 0.  The    *)
(* binary rounding of float arithmetic is not modelled: the times the       *)
(* models feed in are ones on which the code computes the exact result.     *)
(***************************************************************************)
EXTENDS Integers, Naturals, Sequences, FiniteSets, TLC

VARIABLES
    pc,                  \* position in the operation being run
    segments,            \* TranscriptCleaner: the CleaningSegment list
    take_groups,         \* TranscriptCleaner: the TakeGroup list
    keeper_segments,     \* TranscriptCleaner: result of _mark_keeper_segments
    timing_mapping,      \* TranscriptCleaner: result of _create_timing_mapping
    input_file,          \* the FCPXML file at original_fcpxml_path
    fcpxml_data,         \* cleaned data: the parser's frame rate entries
    heap,                \* the Element objects in memory
    original_fcpxml,     \* CutGenerator.original_fcpxml: its root Element
    project_frame_rates, \* CutGenerator.project_frame_rates
    primary_frame_rate,  \* CutGenerator.primary_frame_rate
    keep_ranges,         \* CutGenerator.keep_ranges
    editing,             \* how the workflow's editing phase ended
    edited_segments,     \* the edited_segments argument of generate_cut_fcpxml
    modified_tree,       \* the root Element _apply_cuts_to_fcpxml returns
    output_file,         \* the FCPXML file _save_fcpxml writes at output_path
    metadata_file,       \* the .json file _add_cut_metadata writes beside it
    t_in,                \* FrameRateHandler: a rational time text
    t_frame_rate,        \* FrameRateHandler: the frame rate context
    t_seconds,           \* FrameRateHandler: result of rational_time_to_seconds
    t_out,               \* FrameRateHandler: result of seconds_to_rational_time
    options,             \* process_multicam_clip: its transcription arguments
    cache_file,          \* the file at the transcript cache path
    transcription,       \* process_multicam_clip: the transcript in hand
    log                  \* the cache and service operations of the run, in order

cleanerVars == <<segments, take_groups, keeper_segments, timing_mapping>>
cutVars == <<input_file, fcpxml_data, heap, original_fcpxml, project_frame_rates,
             primary_frame_rate, keep_ranges, editing, edited_segments,
             modified_tree, output_file, metadata_file>>
timeVars == <<t_in, t_frame_rate, t_seconds, t_out>>
flowVars == <<options, cache_file, transcription, log>>
vars == <<pc, cleanerVars, cutVars, timeVars, flowVars>>

(***************************************************************************)
(* Bounds of the model.                                                    *)
(***************************************************************************)
MaxSegs == 3        \* segments in a transcript
MaxRanges == 4      \* keep ranges handed to the cut generator

\* Python's None, where a frame rate, a mapping or a time text is expected
None == [name |-> "None", kind |-> "None"]
IsNone(x) == x = None

(***************************************************************************)
(* Exact arithmetic on seconds (Python float arithmetic, idealised).       *)
(***************************************************************************)
Abs(x) == IF x < 0 THEN -x ELSE x

RECURSIVE GCD(_, _)
GCD(a, b) == IF b = 0 THEN a ELSE GCD(b, a % b)

Rat(n, d) ==
    LET g == GCD(Abs(n), d)
    IN  IF n = 0 THEN <<0, 1>> ELSE <<n \div g, d \div g>>

Zero == <<0, 1>>
One == <<1, 1>>
Int2Rat(n) == <<n, 1>>

RAdd(a, b) == Rat(a[1] * b[2] + b[1] * a[2], a[2] * b[2])
RSub(a, b) == Rat(a[1] * b[2] - b[1] * a[2], a[2] * b[2])
RMul(a, b) ==
    LET Cross(x, y) == Rat(x[1] * y[1], x[2] * y[2])
    IN  Cross(Rat(a[1], b[2]), Rat(b[1], a[2]))
RDiv(a, b) ==
    RMul(a, IF b[1] > 0 THEN <<b[2], b[1]>> ELSE <<-b[2], -b[1]>>)
RLeq(a, b) == a[1] * b[2] <= b[1] * a[2]
RLess(a, b) == a[1] * b[2] < b[1] * a[2]

\* int(x): truncation toward zero
RTrunc(a) == IF a[1] >= 0 THEN a[1] \div a[2] ELSE -((-a[1]) \div a[2])

\* int(x * k) for an integer k > 0, by whole part and remainder of x
TruncTimes(a, k) ==
    LET n == Abs(a[1])
        magnitude == (n \div a[2]) * k + ((n % a[2]) * k) \div a[2]
    IN  IF a[1] >= 0 THEN magnitude ELSE -magnitude

\* round(x): to the nearest integer, ties to the even one
RRound(a) ==
    LET f == a[1] \div a[2]          \* floor
        r == a[1] - f * a[2]         \* 0 <= r < d
    IN  IF 2 * r < a[2] THEN f
        ELSE IF 2 * r > a[2] THEN f + 1
        ELSE IF f % 2 = 0 THEN f ELSE f + 1

RECURSIVE SumSeq(_)
SumSeq(s) == IF s = <<>> THEN Zero ELSE RAdd(Head(s), SumSeq(Tail(s)))

(***************************************************************************)
(* Transcript text.  A text is the sequence of its whitespace-separated     *)
(* words, lower case.  The vocabulary has no "--" and no word followed by   *)
(* ", i mean / actually / sorry", so of the four false start patterns only  *)
(* the repeated-word and the repeated-phrase pattern can match.             *)
(***************************************************************************)
\* TranscriptCleaner(cleaning_level='light')
LightLevel == "light"

cleaning_level == "moderate"

base_fillers == {"um", "uh", "ah", "er", "hmm", "mm", "mhm", "erm"}
moderate_fillers ==
    base_fillers \cup {"like", "you know", "i mean", "sort of", "kind of",
                       "basically", "actually", "literally", "so"}
aggressive_fillers ==
    moderate_fillers \cup {"well", "okay", "alright", "right", "yeah", "yes",
                           "totally", "definitely", "obviously", "clearly"}

_get_filler_words ==
    IF cleaning_level = "light" THEN base_fillers
    ELSE IF cleaning_level = "moderate" THEN moderate_fillers
    ELSE aggressive_fillers

\* re.sub(r'[^\w\s]', '', word.lower()) on the words of the vocabulary
StripPunct(w) ==
    CASE w = "so," -> "so"
      [] w = "um," -> "um"
      [] w = "let's" -> "lets"
      [] OTHER -> w

RECURSIVE RemoveFillers(_)
RemoveFillers(words) ==
    IF words = <<>> THEN <<>>
    ELSE IF StripPunct(Head(words)) \in _get_filler_words
         THEN RemoveFillers(Tail(words))
         ELSE <<Head(words)>> \o RemoveFillers(Tail(words))

\* re.sub(r'\b(\w+)\s+\1\b', '', text): one pass, leftmost matches removed
RECURSIVE RemoveRepeatedWords(_)
RemoveRepeatedWords(words) ==
    IF Len(words) < 2 THEN words
    ELSE IF words[1] = words[2] /\ StripPunct(words[1]) = words[1]
         THEN RemoveRepeatedWords(SubSeq(words, 3, Len(words)))
         ELSE <<words[1]>> \o RemoveRepeatedWords(Tail(words))

\* re.sub(r'\b(\w+)\s+(\w+)\s+\1\s+\2\b', '', text)
RECURSIVE RemoveRepeatedPhrases(_)
RemoveRepeatedPhrases(words) ==
    IF Len(words) < 4 THEN words
    ELSE IF /\ words[1] = words[3] /\ words[2] = words[4]
            /\ \A k \in 1..4 : StripPunct(words[k]) = words[k]
         THEN RemoveRepeatedPhrases(SubSeq(words, 5, Len(words)))
         ELSE <<words[1]>> \o RemoveRepeatedPhrases(Tail(words))

_clean_segment_text(text) ==
    RemoveRepeatedPhrases(RemoveRepeatedWords(RemoveFillers(text)))

\* len(' '.join(words)): the number of characters of a text
RECURSIVE CharLen(_)
CharLen(words) ==
    IF words = <<>> THEN 0
    ELSE IF Len(words) = 1 THEN Len(words[1])
    ELSE Len(words[1]) + 1 + CharLen(Tail(words))

(***************************************************************************)
(* difflib.SequenceMatcher(None, a, b).ratio() on word lists.               *)
(* Ranges are half open, [lo, hi), over 1-based positions.                  *)
(***************************************************************************)
RECURSIVE RunLen(_, _, _, _, _, _)
RunLen(a, b, i, j, ahi, bhi) ==
    IF i < ahi /\ j < bhi /\ a[i] = b[j]
    THEN 1 + RunLen(a, b, i + 1, j + 1, ahi, bhi)
    ELSE 0

\* find_longest_match: the longest block, earliest in a, then earliest in b
LongestMatch(a, b, alo, ahi, blo, bhi) ==
    LET cands == {<<i, j>> : i \in alo..(ahi - 1), j \in blo..(bhi - 1)}
        len(c) == RunLen(a, b, c[1], c[2], ahi, bhi)
        best == IF cands = {} THEN 0
                ELSE CHOOSE k \in {len(c) : c \in cands} :
                        \A c \in cands : len(c) <= k
    IN  IF best = 0 THEN <<alo, blo, 0>>
        ELSE LET top == {c \in cands : len(c) = best}
                 c0 == CHOOSE c \in top :
                          \A o \in top : \/ c[1] < o[1]
                                         \/ (c[1] = o[1] /\ c[2] <= o[2])
             IN  <<c0[1], c0[2], best>>

RECURSIVE MatchedCount(_, _, _, _, _, _)
MatchedCount(a, b, alo, ahi, blo, bhi) ==
    LET m == LongestMatch(a, b, alo, ahi, blo, bhi)
    IN  IF m[3] = 0 THEN 0
        ELSE m[3] + MatchedCount(a, b, alo, m[1], blo, m[2])
                  + MatchedCount(a, b, m[1] + m[3], ahi, m[2] + m[3], bhi)

\* _calculate_similarity: 0.0 for an empty text, else 2*M / (len(a)+len(b))
_calculate_similarity(text1, text2) ==
    IF text1 = <<>> \/ text2 = <<>> THEN Zero
    ELSE Rat(2 * MatchedCount(text1, text2, 1, Len(text1) + 1, 1, Len(text2) + 1),
             Len(text1) + Len(text2))

similarity_threshold == <<3, 5>>      \* 0.6
time_window == <<30, 1>>              \* 30.0 seconds
merge_gap == <<1, 1>>                 \* 1.0 second

(***************************************************************************)
(* TranscriptCleaner.  A take group holds the positions (1-based, into      *)
(* segments) of its members, in the order they were appended, and the       *)
(* 0-based best_take_index.                                                 *)
(***************************************************************************)
\* the scan for takes with no time window
RECURSIVE ScanAllLater(_, _, _, _, _)
ScanAllLater(segs, i, j, group, used) ==
    IF j > Len(segs) THEN <<group, used>>
    ELSE IF j \in used THEN ScanAllLater(segs, i, j + 1, group, used)
    ELSE IF RLeq(similarity_threshold,
                 _calculate_similarity(segs[i].cleaned_text, segs[j].cleaned_text))
         THEN ScanAllLater(segs, i, j + 1, Append(group, j), used \cup {j})
    ELSE ScanAllLater(segs, i, j + 1, group, used)

\* the inner loop over j of _identify_take_groups; returns <<group, used>>
RECURSIVE ScanForTakes(_, _, _, _, _)
ScanForTakes(segs, i, j, group, used) ==
    IF j > Len(segs) THEN <<group, used>>
    ELSE IF j \in used THEN ScanForTakes(segs, i, j + 1, group, used)
    ELSE IF RLess(time_window, RSub(segs[j].start_time, segs[i].end_time))
         THEN <<group, used>>
    ELSE IF RLeq(similarity_threshold,
                 _calculate_similarity(segs[i].cleaned_text, segs[j].cleaned_text))
         THEN ScanForTakes(segs, i, j + 1, Append(group, j), used \cup {j})
    ELSE ScanForTakes(segs, i, j + 1, group, used)

\* the outer loop over i of _identify_take_groups
RECURSIVE IdentifyFrom(_, _, _, _)
IdentifyFrom(segs, i, groups, used) ==
    IF i > Len(segs) THEN groups
    ELSE IF i \in used \/ segs[i].cleaned_text = <<>>
         THEN IdentifyFrom(segs, i + 1, groups, used)
    ELSE LET r == ScanForTakes(segs, i, i + 1, <<i>>, used \cup {i})
         IN  IF Len(r[1]) > 1
             THEN IdentifyFrom(segs, i + 1,
                      Append(groups, [segments |-> r[1],
                                      best_take_index |-> Len(r[1]) - 1]),
                      r[2])
             ELSE IdentifyFrom(segs, i + 1, groups, r[2])

_identify_take_groups(segs) == IdentifyFrom(segs, 1, <<>>, {})

\* the score of the member at 0-based index i of a take group
TakeScore(segs, members, i) ==
    LET n == Len(members)
        seg == segs[members[i + 1]]
        lens == {CharLen(segs[members[k]].cleaned_text) : k \in 1..n}
        max_length == CHOOSE m \in lens : \A o \in lens : o <= m
        last_take_bonus == Rat(i, IF n - 1 > 1 THEN n - 1 ELSE 1)
        length_bonus == IF max_length > 0
                        THEN RMul(Rat(CharLen(seg.cleaned_text), max_length), <<3, 10>>)
                        ELSE Zero
    IN  RAdd(RAdd(RMul(last_take_bonus, <<1, 2>>), length_bonus),
             RMul(seg.confidence, <<1, 5>>))

\* scores.index(max(scores)): the first index holding the maximum
_select_best_take(segs, group) ==
    LET n == Len(group.segments)
        score(i) == TakeScore(segs, group.segments, i)
        best == CHOOSE i \in 0..(n - 1) :
                   /\ \A k \in 0..(n - 1) : RLeq(score(k), score(i))
                   /\ \A k \in 0..(i - 1) : RLess(score(k), score(i))
    IN  [group EXCEPT !.best_take_index = best]

\* list.sort(key=start_time): a stable sort, by insertion
RECURSIVE InsertByStart(_, _, _)
InsertByStart(segs, sorted, p) ==
    IF sorted = <<>> THEN <<p>>
    ELSE IF RLess(segs[p].start_time, segs[Head(sorted)].start_time)
         THEN <<p>> \o sorted
         ELSE <<Head(sorted)>> \o InsertByStart(segs, Tail(sorted), p)

RECURSIVE SortByStartFrom(_, _, _)
SortByStartFrom(segs, todo, sorted) ==
    IF todo = <<>> THEN sorted
    ELSE SortByStartFrom(segs, Tail(todo), InsertByStart(segs, sorted, Head(todo)))

\* keepers as _mark_keeper_segments collects them, left unsorted
Unsorted(segs, keepers) == keepers

SortByStart(segs, keepers) == SortByStartFrom(segs, keepers, <<>>)

\* _mark_keeper_segments: the positions of the keeper segments, sorted by start
_mark_keeper_segments(segs, groups) ==
    LET winners == [g \in 1..Len(groups) |->
                        groups[g].segments[groups[g].best_take_index + 1]]
        grouped_segment_ids == UNION {{groups[g].segments[k] : k \in 1..Len(groups[g].segments)}
                      : g \in 1..Len(groups)}
        ungrouped == SelectSeq([k \in 1..Len(segs) |-> k],
                         LAMBDA k : k \notin grouped_segment_ids /\ segs[k].cleaned_text # <<>>)
    IN  SortByStart(segs, winners \o ungrouped)

\* `if gap <= 1.0` written with the comparison the wrong way round
WithinMergeGapFlipped(gap) == RLess(merge_gap, gap)

\* `if gap <= 1.0` written as gap < 1.0
WithinMergeGapStrict(gap) == RLess(gap, merge_gap)

\* `if gap <= 1.0:  # Allow small gaps`
WithinMergeGap(gap) == RLeq(gap, merge_gap)

\* the loop of _create_timing_mapping that merges keeper segments into ranges
RECURSIVE MergeKeepers(_, _, _, _, _, _)
MergeKeepers(segs, keepers, i, current_start, current_end, ranges) ==
    IF i > Len(keepers)
    THEN Append(ranges, [start |-> current_start, end |-> current_end])
    ELSE LET segment == segs[keepers[i]]
             gap == RSub(segment.start_time, current_end)
         IN  IF WithinMergeGap(gap)
             THEN MergeKeepers(segs, keepers, i + 1,
                               current_start, segment.end_time, ranges)
             ELSE MergeKeepers(segs, keepers, i + 1,
                               segment.start_time, segment.end_time,
                               Append(ranges, [start |-> current_start,
                                               end |-> current_end]))

KeepRangesOf(segs, keepers) ==
    IF keepers # <<>>
    THEN MergeKeepers(segs, keepers, 2, segs[keepers[1]].start_time,
                      segs[keepers[1]].end_time, <<>>)
    ELSE <<>>

\* max(seg.end_time for seg in original_segments) if original_segments else 0
MaxEndTime(segs) ==
    IF segs = <<>> THEN Zero
    ELSE LET ends == {segs[k].end_time : k \in 1..Len(segs)}
         IN  CHOOSE m \in ends : \A e \in ends : RLeq(e, m)

\* the cut ranges of _create_timing_mapping, from its keep ranges
CutRangesOf(segs, kr) ==
    IF kr # <<>>
    THEN LET leading == IF RLess(Zero, kr[1].start)
                        THEN <<[start |-> Zero, end |-> kr[1].start]>>
                        ELSE <<>>
             between == [i \in 1..(Len(kr) - 1) |->
                            [start |-> kr[i].end, end |-> kr[i + 1].start]]
             total_duration == MaxEndTime(segs)
             trailing == IF RLess(kr[Len(kr)].end, total_duration)
                         THEN <<[start |-> kr[Len(kr)].end, end |-> total_duration]>>
                         ELSE <<>>
         IN  leading \o between \o trailing
    ELSE <<>>

RangeDurations(ranges) ==
    [i \in 1..Len(ranges) |-> RSub(ranges[i].end, ranges[i].start)]

_create_timing_mapping(segs, keepers) ==
    LET kr == KeepRangesOf(segs, keepers)
    IN  [keep_ranges |-> kr,
         cut_ranges |-> CutRangesOf(segs, kr),
         total_original_duration |-> MaxEndTime(segs),
         total_cleaned_duration |-> SumSeq(RangeDurations(kr))]

(***************************************************************************)
(* Inputs of the cleaner: transcription segments as the transcriber hands   *)
(* them over, in start order, possibly overlapping or nested.               *)
(***************************************************************************)
Q(k) == Rat(k, 4)     \* k quarter seconds

Spans == {<<0, 4>>, <<1, 2>>, <<2, 6>>, <<4, 8>>, <<12, 16>>, <<13, 14>>, <<20, 21>>}

\* one CleaningSegment of _convert_to_cleaning_segments
CleaningSegment(span, text, no_speech_prob, i) ==
    [start_time |-> Q(span[1]), end_time |-> Q(span[2]),
     original_text |-> text, cleaned_text |-> <<>>,
     confidence |-> RSub(One, no_speech_prob),
     is_keeper |-> FALSE, segment_id |-> i]

CleanerIdle ==
    /\ segments = <<>>
    /\ take_groups = <<>>
    /\ keeper_segments = <<>>
    /\ timing_mapping = [keep_ranges |-> <<>>, cut_ranges |-> <<>>,
                         total_original_duration |-> Zero,
                         total_cleaned_duration |-> Zero]

CutIdle ==
    /\ input_file = [tag |-> "", attrib |-> <<>>, children |-> <<>>]
    /\ fcpxml_data = [present |-> FALSE, frame_rates |-> <<>>,
                      primary_frame_rate |-> None]
    /\ heap = <<>>
    /\ original_fcpxml = 0
    /\ project_frame_rates = <<>>
    /\ primary_frame_rate = None
    /\ keep_ranges = <<>>
    /\ editing = "off"
    /\ edited_segments = [present |-> FALSE, list |-> <<>>]
    /\ modified_tree = 0
    /\ output_file = [tag |-> "", attrib |-> <<>>, children |-> <<>>]
    /\ metadata_file = None

TimeIdle ==
    /\ t_in = None
    /\ t_frame_rate = None
    /\ t_seconds = Zero
    /\ t_out = None

FlowIdle ==
    /\ options = None
    /\ cache_file = [kind |-> "missing"]
    /\ transcription = None
    /\ log = <<>>

(***************************************************************************)
(* clean_transcript, step by step.                                         *)
(***************************************************************************)
\* the transcription gains one more segment (transcription['segments'])
ReceiveSegment ==
    /\ pc = "transcribing"
    /\ Len(segments) < MaxSegs
    /\ \E span \in Spans, nsp \in {Zero},
          text \in {<<"um">>, <<"so", "today">>, <<"let's", "continue">>,
                    <<"the", "the", "end">>} :
          /\ segments # <<>> =>
                RLeq(segments[Len(segments)].start_time, Q(span[1]))
          /\ segments' = Append(segments,
                                CleaningSegment(span, text, nsp, Len(segments)))
    /\ UNCHANGED <<pc, take_groups, keeper_segments, timing_mapping, cutVars, timeVars,
                   flowVars>>

\* Step 1: segment.cleaned_text = _clean_segment_text(segment.original_text)
CleanSegments ==
    /\ pc = "transcribing"
    /\ segments' = [i \in 1..Len(segments) |->
                       [segments[i] EXCEPT
                           !.cleaned_text = _clean_segment_text(segments[i].original_text)]]
    /\ pc' = "identify"
    /\ UNCHANGED <<take_groups, keeper_segments, timing_mapping, cutVars, timeVars,
                   flowVars>>

\* Step 2: take_groups = _identify_take_groups(segments)
IdentifyTakeGroups ==
    /\ pc = "identify"
    /\ take_groups' = _identify_take_groups(segments)
    /\ pc' = "select"
    /\ UNCHANGED <<segments, keeper_segments, timing_mapping, cutVars, timeVars, flowVars>>

\* Step 3: _select_best_take(group) for every group
SelectBestTakes ==
    /\ pc = "select"
    /\ take_groups' = [g \in 1..Len(take_groups) |->
                          _select_best_take(segments, take_groups[g])]
    /\ pc' = "mark"
    /\ UNCHANGED <<segments, keeper_segments, timing_mapping, cutVars, timeVars, flowVars>>

\* Step 4: keeper_segments = _mark_keeper_segments(segments, take_groups)
MarkKeepers ==
    /\ pc = "mark"
    /\ keeper_segments' = _mark_keeper_segments(segments, take_groups)
    /\ segments' = [i \in 1..Len(segments) |->
                       [segments[i] EXCEPT
                           !.is_keeper = \E k \in 1..Len(keeper_segments') :
                                             keeper_segments'[k] = i]]
    /\ pc' = "map"
    /\ UNCHANGED <<take_groups, timing_mapping, cutVars, timeVars, flowVars>>

\* Step 6: timing_mapping = _create_timing_mapping(segments, keeper_segments)
CreateTimingMapping ==
    /\ pc = "map"
    /\ timing_mapping' = _create_timing_mapping(segments, keeper_segments)
    /\ pc' = "cleaned"
    /\ UNCHANGED <<segments, take_groups, keeper_segments, cutVars, timeVars, flowVars>>

InitClean ==
    /\ pc = "transcribing"
    /\ CleanerIdle
    /\ CutIdle
    /\ TimeIdle
    /\ FlowIdle

NextClean ==
    \/ ReceiveSegment
    \/ CleanSegments
    \/ IdentifyTakeGroups
    \/ SelectBestTakes
    \/ MarkKeepers
    \/ CreateTimingMapping

SpecClean == InitClean /\ [][NextClean]_vars

(***************************************************************************)
(* Repeated takes: transcriptions whose segments repeat a sentence, with   *)
(* pauses up to and beyond the 30 s window and with uneven confidence.     *)
(***************************************************************************)
\* the segments a transcriber may hand over: spans in quarter seconds, the
\* texts and no_speech_prob
TakeInputs ==
    [span : {<<0, 8>>, <<8, 16>>, <<40, 48>>, <<128, 136>>, <<132, 140>>},
     text : {<<"um">>, <<"so", "today">>, <<"so,", "um,", "today">>,
             <<"let's", "continue">>, <<"go", "on">>, <<"go", "on", "then">>},
     no_speech_prob : {Zero, <<1, 2>>}]

\* the transcription gains one more segment, later than the ones it has
ReceiveTake ==
    /\ pc = "transcribing"
    /\ Len(segments) < MaxSegs
    /\ \E take \in TakeInputs :
          /\ segments # <<>> =>
                RLess(segments[Len(segments)].start_time, Q(take.span[1]))
          /\ segments' = Append(segments,
                                CleaningSegment(take.span, take.text,
                                                take.no_speech_prob, Len(segments)))
    /\ UNCHANGED <<pc, take_groups, keeper_segments, timing_mapping, cutVars, timeVars,
                   flowVars>>

NextTakes ==
    \/ ReceiveTake
    \/ CleanSegments
    \/ IdentifyTakeGroups
    \/ SelectBestTakes
    \/ MarkKeepers
    \/ CreateTimingMapping

SpecTakes == InitClean /\ [][NextTakes]_vars

(***************************************************************************)
(* FrameRateHandler.  A rational time text is a record:                    *)
(*   [kind |-> "frac", num, den]   "<num>/<den>s"                           *)
(*   [kind |-> "int", num]         "<num>s"                                 *)
(*   [kind |-> "float", value]     "<float>s", a float literal such as      *)
(*                                 "5.0s" or "0.45s", value its exact value *)
(*   [kind |-> "empty"], [kind |-> "nosuffix"], [kind |-> "garbage"]        *)
(*                                 "", text without the final s, "abcs"     *)
(* float() also reads "infs" and "nans": float texts whose value is inf or *)
(* nan, held as the pairs <<1, 0>> and <<0, 0>>.                            *)
(***************************************************************************)
Frac(n, d) == [kind |-> "frac", num |-> n, den |-> d]
IntSec(n) == [kind |-> "int", num |-> n]
FloatSec(v) == [kind |-> "float", value |-> v]

FrameRateInfo(rate, timebase, timescale, is_drop_frame, name) ==
    [rate |-> rate, timebase |-> timebase, timescale |-> timescale,
     is_drop_frame |-> is_drop_frame, name |-> name]

Rate2997 == <<2997, 100>>      \* 29.97
Rate5994 == <<2997, 50>>       \* 59.94

\* the keys of FRAME_RATES, in the order of the dict
FrameRateKeys ==
    <<"23.976", "24", "25", "29.97", "30", "50", "59.94", "60", "29.97df", "59.94df">>

FRAME_RATES ==
    [k \in {FrameRateKeys[i] : i \in 1..Len(FrameRateKeys)} |->
        CASE k = "23.976" -> FrameRateInfo(<<2997, 125>>, 24000, 1001, FALSE, "23.976 fps")
          [] k = "24" -> FrameRateInfo(<<24, 1>>, 24, 1, FALSE, "24 fps")
          [] k = "25" -> FrameRateInfo(<<25, 1>>, 25, 1, FALSE, "25 fps (PAL)")
          [] k = "29.97" -> FrameRateInfo(Rate2997, 30000, 1001, FALSE, "29.97 fps")
          [] k = "30" -> FrameRateInfo(<<30, 1>>, 30, 1, FALSE, "30 fps")
          [] k = "50" -> FrameRateInfo(<<50, 1>>, 50, 1, FALSE, "50 fps")
          [] k = "59.94" -> FrameRateInfo(Rate5994, 60000, 1001, FALSE, "59.94 fps")
          [] k = "60" -> FrameRateInfo(<<60, 1>>, 60, 1, FALSE, "60 fps")
          [] k = "29.97df" ->
                FrameRateInfo(Rate2997, 30000, 1001, TRUE, "29.97 fps Drop Frame")
          [] k = "59.94df" ->
                FrameRateInfo(Rate5994, 60000, 1001, TRUE, "59.94 fps Drop Frame")]

\* abs(a - b) < 0.01
Near(a, b) ==
    LET Small(diff) == RLess(<<Abs(diff[1]), diff[2]>>, <<1, 100>>)
    IN  Small(RSub(a, b))

\* K frames dropped every minute, the tenth ones too
DroppedEveryMinute(total_frames, rate, K) ==
    RTrunc(RDiv(total_frames, RMul(rate, <<60, 1>>))) * K

\* the frames dropped up to a frame count, K frames a minute except each tenth
DroppedFrames(total_frames, rate, K) ==
    LET Dropped(minutes) == minutes * K - (minutes \div 10) * K
    IN  Dropped(RTrunc(RDiv(total_frames, RMul(rate, <<60, 1>>))))

_apply_drop_frame_correction(seconds, frame_rate_info) ==
    IF ~frame_rate_info.is_drop_frame THEN seconds
    ELSE IF Near(frame_rate_info.rate, Rate2997)
    THEN LET RealFrames(total_frames) ==
                 RAdd(total_frames, Int2Rat(DroppedFrames(total_frames, Rate2997, 2)))
         IN  RDiv(RealFrames(RMul(seconds, Rate2997)), Rate2997)
    ELSE IF Near(frame_rate_info.rate, Rate5994)
    THEN LET RealFrames(total_frames) ==
                 RAdd(total_frames, Int2Rat(DroppedFrames(total_frames, Rate5994, 4)))
         IN  RDiv(RealFrames(RMul(seconds, Rate5994)), Rate5994)
    ELSE seconds

_reverse_drop_frame_correction(real_seconds, frame_rate_info) ==
    IF ~frame_rate_info.is_drop_frame THEN real_seconds
    ELSE IF Near(frame_rate_info.rate, Rate2997)
    THEN LET TimecodeFrames(real_frames) ==
                 RSub(real_frames, Int2Rat(DroppedFrames(real_frames, Rate2997, 2)))
         IN  RDiv(TimecodeFrames(RMul(real_seconds, Rate2997)), Rate2997)
    ELSE IF Near(frame_rate_info.rate, Rate5994)
    THEN LET TimecodeFrames(real_frames) ==
                 RSub(real_frames, Int2Rat(DroppedFrames(real_frames, Rate5994, 4)))
         IN  RDiv(TimecodeFrames(RMul(real_seconds, Rate5994)), Rate5994)
    ELSE real_seconds

\* the float the text parses to; ok is FALSE for ValueError / ZeroDivisionError
ParseSeconds(rational_time) ==
    CASE rational_time.kind = "frac" ->
            IF rational_time.den = 0 THEN [ok |-> FALSE, value |-> Zero]
            ELSE IF rational_time.den > 0
                 THEN [ok |-> TRUE,
                       value |-> Rat(rational_time.num, rational_time.den)]
                 ELSE [ok |-> TRUE,
                       value |-> Rat(-rational_time.num, -rational_time.den)]
      [] rational_time.kind = "int" ->
            [ok |-> TRUE, value |-> Int2Rat(rational_time.num)]
      [] rational_time.kind = "float" ->
            [ok |-> TRUE, value |-> rational_time.value]
      [] OTHER -> [ok |-> FALSE, value |-> Zero]

\* int() of the frame count of a drop frame correction: the 29.97 and the
\* 59.94 branch take it
TakesFrameCount(frame_rate_info) ==
    /\ frame_rate_info.is_drop_frame
    /\ \/ Near(frame_rate_info.rate, Rate2997)
       \/ Near(frame_rate_info.rate, Rate5994)

\* FrameRateHandler.rational_time_to_seconds leaves by an exception it does
\* not catch: int(inf) raises OverflowError
rational_time_to_seconds_raises(rational_time, frame_rate_info) ==
    /\ ParseSeconds(rational_time).value = <<1, 0>>
    /\ ~IsNone(frame_rate_info)
    /\ TakesFrameCount(frame_rate_info)

\* FrameRateHandler.rational_time_to_seconds; frame_rate_info may be None
rational_time_to_seconds(rational_time, frame_rate_info) ==
    IF rational_time.kind \in {"empty", "nosuffix"} THEN Zero
    ELSE LET Seconds(parsed) ==
                 IF ~parsed.ok THEN Zero
                 ELSE IF ~IsNone(frame_rate_info) /\ frame_rate_info.is_drop_frame
                      THEN IF parsed.value[2] # 0
                           THEN _apply_drop_frame_correction(parsed.value,
                                                             frame_rate_info)
                           \* int(nan) raises ValueError, which is caught
                           ELSE IF TakesFrameCount(frame_rate_info) THEN Zero
                           ELSE parsed.value
                      ELSE parsed.value
         IN  Seconds(ParseSeconds(rational_time))

\* FrameRateHandler.seconds_to_rational_time leaves by an exception: int()
\* of inf or nan raises OverflowError or ValueError
seconds_to_rational_time_raises(seconds, frame_rate_info) ==
    /\ seconds[2] = 0
    /\ TakesFrameCount(frame_rate_info) \/ frame_rate_info.timescale # 1

\* FrameRateHandler.seconds_to_rational_time
seconds_to_rational_time(seconds, frame_rate_info) ==
    LET Written(secs) ==
            IF frame_rate_info.timescale = 1
            THEN FloatSec(secs)
            ELSE Frac(TruncTimes(secs, frame_rate_info.timebase),
                      frame_rate_info.timebase)
    IN  Written(IF frame_rate_info.is_drop_frame
                THEN _reverse_drop_frame_correction(seconds, frame_rate_info)
                ELSE seconds)

(***************************************************************************)
(* Converting a time text to seconds and back, under one frame rate.        *)
(***************************************************************************)
\* frame counts; binary floats carry out the conversions of these exactly
Frames == {0, 1, 2, 14, 25, 1799}

\* time texts on a frame boundary of a frame rate, written as the grammar
\* asks: "<int>/<timebase>s", or "<int>s" for a whole number of seconds
BoundaryTimes(fr) ==
    {Frac(k * fr.timescale, fr.timebase) : k \in Frames}
        \cup {IntSec(k * fr.timescale) : k \in {0, 1, 5}}

OtherTimes ==
    {Frac(1, 3), Frac(1, 0), FloatSec(<<3, 2>>), FloatSec(<<1000, 1>>), IntSec(-3),
     FloatSec(<<1, 40000>>),
     FloatSec(<<1, 0>>), FloatSec(<<0, 0>>),      \* "infs", "nans"
     [kind |-> "empty"], [kind |-> "nosuffix"], [kind |-> "garbage"]}

TimeFrameRates == {FRAME_RATES[k] : k \in DOMAIN FRAME_RATES}

\* a time text and the frame rate context of its conversion; without a
\* context (frame_rate_info=None) only the conversion to seconds is made
ChooseTime ==
    /\ pc = "time_idle"
    /\ \/ \E fr \in TimeFrameRates :
            \E t \in BoundaryTimes(fr) \cup OtherTimes :
               /\ t_in' = t
               /\ t_frame_rate' = fr
       \/ \E t \in BoundaryTimes(FRAME_RATES["29.97"]) \cup OtherTimes :
               /\ t_in' = t
               /\ t_frame_rate' = None
    /\ pc' = "to_seconds"
    /\ UNCHANGED <<t_seconds, t_out, cleanerVars, cutVars, flowVars>>

ToSeconds ==
    /\ pc = "to_seconds"
    /\ IF rational_time_to_seconds_raises(t_in, t_frame_rate)
       THEN /\ pc' = "seconds_raised"
            /\ UNCHANGED t_seconds
       ELSE /\ t_seconds' = rational_time_to_seconds(t_in, t_frame_rate)
            /\ pc' = IF IsNone(t_frame_rate) THEN "seconds_done" ELSE "to_rational"
    /\ UNCHANGED <<t_in, t_frame_rate, t_out, cleanerVars, cutVars, flowVars>>

ToRational ==
    /\ pc = "to_rational"
    /\ IF seconds_to_rational_time_raises(t_seconds, t_frame_rate)
       THEN /\ pc' = "rational_raised"
            /\ UNCHANGED t_out
       ELSE /\ t_out' = seconds_to_rational_time(t_seconds, t_frame_rate)
            /\ pc' = "time_done"
    /\ UNCHANGED <<t_in, t_frame_rate, t_seconds, cleanerVars, cutVars, flowVars>>

InitTime ==
    /\ pc = "time_idle"
    /\ CleanerIdle
    /\ CutIdle
    /\ TimeIdle
    /\ FlowIdle

NextTime ==
    \/ ChooseTime
    \/ ToSeconds
    \/ ToRational

SpecTime == InitTime /\ [][NextTime]_vars

(***************************************************************************)
(* xml.etree.ElementTree.  A document on disk is a tree value; in memory   *)
(* every Element is an object of the heap, known by its position in heap,  *)
(* and holds its tag, its attrib dict and the list of its children.  The   *)
(* whitespace in text and tail, all _indent_xml changes, is not modelled.  *)
(***************************************************************************)
Element(tag, attrib, children) ==
    [tag |-> tag, attrib |-> attrib, children |-> children]

\* dict.get(key, default)
Get(attrib, key, default) ==
    IF key \in DOMAIN attrib THEN attrib[key] ELSE default

\* element.set(key, value)
SetAttr(h, element, key, value) ==
    [h EXCEPT ![element].attrib = (key :> value) @@ @]

\* del element.attrib[key]
DelAttr(h, element, key) ==
    [h EXCEPT ![element].attrib = [k \in (DOMAIN @) \ {key} |-> @[k]]]

\* parent.append(child)
AppendChild(h, parent, child) ==
    [h EXCEPT ![parent].children = Append(@, child)]

\* parent.insert(0, child)
InsertFirst(h, parent, child) ==
    [h EXCEPT ![parent].children = <<child>> \o @]

\* parent.remove(child)
RemoveChild(h, parent, child) ==
    [h EXCEPT ![parent].children = SelectSeq(@, LAMBDA c : c # child)]

\* the spine left as it was copied
KeepElement(h, element) == h

\* element.clear(): no attributes and no children are left
ClearElement(h, element) ==
    [h EXCEPT ![element].attrib = <<>>, ![element].children = <<>>]

RECURSIVE ParseElement(_, _)
RECURSIVE ParseChildren(_, _)
\* ET.parse: fresh Elements for a document; the root is created last
ParseElement(h, tree) ==
    LET kids == ParseChildren(h, tree.children)
        nh == Append(kids.heap, Element(tree.tag, tree.attrib, kids.ids))
    IN  [heap |-> nh, id |-> Len(nh)]

ParseChildren(h, trees) ==
    IF trees = <<>> THEN [heap |-> h, ids |-> <<>>]
    ELSE LET first == ParseElement(h, Head(trees))
             rest == ParseChildren(first.heap, Tail(trees))
         IN  [heap |-> rest.heap, ids |-> <<first.id>> \o rest.ids]

RECURSIVE ToXml(_, _)
\* tree.write: the document of the Element and all below it
ToXml(h, element) ==
    Element(h[element].tag, h[element].attrib,
            [i \in 1..Len(h[element].children) |-> ToXml(h, h[element].children[i])])

RECURSIVE IterList(_, _)
\* the Elements of a list and all below them, in document order
IterList(h, ids) ==
    IF ids = <<>> THEN <<>>
    ELSE <<Head(ids)>> \o IterList(h, h[Head(ids)].children) \o IterList(h, Tail(ids))

\* element.findall('.//tag')
findall(h, element, tag) ==
    SelectSeq(IterList(h, h[element].children), LAMBDA e : h[e].tag = tag)

\* element.find('.//tag'), 0 for None
find(h, element, tag) ==
    LET all == findall(h, element, tag)
    IN  IF all = <<>> THEN 0 ELSE all[1]

\* element.findall('tag'): direct children only
findall_child(h, element, tag) ==
    SelectSeq(h[element].children, LAMBDA e : h[e].tag = tag)

\* element.find('tag'): direct children only, 0 for None
find_child(h, element, tag) ==
    LET all == findall_child(h, element, tag)
    IN  IF all = <<>> THEN 0 ELSE all[1]

\* a copy of the Element alone, holding the same child Elements
ShallowCopy(h, element) ==
    [heap |-> Append(h, h[element]), id |-> Len(h) + 1]

RECURSIVE _deep_copy_element(_, _)
RECURSIVE CopyChildren(_, _)
\* CutGenerator._deep_copy_element: a new Element with a copy of the attrib
\* dict and deep copies of the children
_deep_copy_element(h, element) ==
    LET kids == CopyChildren(h, h[element].children)
        nh == Append(kids.heap,
                     Element(h[element].tag, h[element].attrib, kids.ids))
    IN  [heap |-> nh, id |-> Len(nh)]

CopyChildren(h, ids) ==
    IF ids = <<>> THEN [heap |-> h, ids |-> <<>>]
    ELSE LET first == _deep_copy_element(h, Head(ids))
             rest == CopyChildren(first.heap, Tail(ids))
         IN  [heap |-> rest.heap, ids |-> <<first.id>> \o rest.ids]

RECURSIVE XmlIterList(_)
\* the elements of a list of documents and all below them, in document order
XmlIterList(trees) ==
    IF trees = <<>> THEN <<>>
    ELSE <<Head(trees)>> \o XmlIterList(Head(trees).children) \o XmlIterList(Tail(trees))

\* the elements with a tag below the root of a document, in document order
XmlAll(tree, tag) ==
    SelectSeq(XmlIterList(tree.children), LAMBDA e : e.tag = tag)

\* the children with a tag of an element of a document
XmlChildren(tree, tag) ==
    SelectSeq(tree.children, LAMBDA e : e.tag = tag)

(***************************************************************************)
(* Frame rate detection.  The name of a format is held as the fragments it *)
(* is written with, e.g. <<"FFVideoFormat", "1080p", "2997">>; a dict is a  *)
(* sequence of [key, value] pairs in insertion order.                       *)
(***************************************************************************)
NoText == [kind |-> "empty"]         \* '' or a missing attribute

DictHas(d, key) == \E i \in 1..Len(d) : d[i].key = key

DictGet(d, key) == d[CHOOSE i \in 1..Len(d) : d[i].key = key].value

\* d[key] = value
DictSet(d, key, value) ==
    IF DictHas(d, key)
    THEN [i \in 1..Len(d) |->
             IF d[i].key = key THEN [key |-> key, value |-> value] ELSE d[i]]
    ELSE Append(d, [key |-> key, value |-> value])

\* str.lower() on the fragments of the format names
Lower(s) ==
    CASE s = "FFVideoFormat" -> "ffvideoformat"
      [] s = "DF" -> "df"
      [] s = "Drop" -> "drop"
      [] s = "RateUndefined" -> "rateundefined"
      [] OTHER -> s

drop_indicators == {"2997", "5994", "df", "drop", "dropframe"}

\* FrameRateHandler._is_drop_frame_format
_is_drop_frame_format(format_name) ==
    \E i \in 1..Len(format_name) : Lower(format_name[i]) \in drop_indicators

\* f"{frame_rate:.3f} fps"
FormatFps(frame_rate) ==
    LET Pad(digits) == IF digits < 10 THEN "00" ELSE IF digits < 100 THEN "0" ELSE ""
        Fixed(thousandths) ==
            ToString(thousandths \div 1000) \o "." \o Pad(thousandths % 1000)
                \o ToString(thousandths % 1000) \o " fps"
    IN  Fixed(RRound(RMul(frame_rate, <<1000, 1>>)))

\* the FRAME_RATES entries of exactly a rate
ExactRates(frame_rate) ==
    {i \in 1..Len(FrameRateKeys) : frame_rate = FRAME_RATES[FrameRateKeys[i]].rate}

\* the FRAME_RATES entries within 0.01 of a rate, by position in the dict
MatchingRates(frame_rate) ==
    {i \in 1..Len(FrameRateKeys) : Near(frame_rate, FRAME_RATES[FrameRateKeys[i]].rate)}

\* FrameRateHandler._parse_frame_duration
_parse_frame_duration(frame_duration) ==
    CASE frame_duration.kind = "frac" ->
            IF frame_duration.den = 0 \/ frame_duration.num = 0 THEN None
            ELSE LET Standard(rate_info) ==
                         FrameRateInfo(rate_info.rate, frame_duration.den,
                                       frame_duration.num, FALSE, rate_info.name)
                     Matched(frame_rate, matches) ==
                         IF matches # {}
                         THEN Standard(FRAME_RATES[FrameRateKeys[
                                  CHOOSE i \in matches : \A j \in matches : i <= j]])
                         ELSE FrameRateInfo(frame_rate, frame_duration.den,
                                            frame_duration.num, FALSE,
                                            FormatFps(frame_rate))
                     Parsed(frame_rate) == Matched(frame_rate, MatchingRates(frame_rate))
                 IN  Parsed(Rat(frame_duration.den, frame_duration.num))
      [] frame_duration.kind = "int" ->
            IF frame_duration.num = 0 THEN None
            ELSE LET Whole(frame_rate) ==
                         FrameRateInfo(frame_rate, 1, 1, FALSE, FormatFps(frame_rate))
                 IN  Whole(Rat(1, frame_duration.num))
      [] frame_duration.kind = "float" ->
            IF frame_duration.value = Zero THEN None
            ELSE LET Decimal(frame_rate) ==
                         FrameRateInfo(frame_rate, 1, 1, FALSE, FormatFps(frame_rate))
                 IN  Decimal(RDiv(One, frame_duration.value))
      [] OTHER -> None

\* FrameRateHandler.detect_frame_rate_from_fcpxml_format, from the attrib of
\* the format element
detect_frame_rate_from_fcpxml_format(format_attrib) ==
    LET frame_duration == Get(format_attrib, "frameDuration", NoText)
        format_name == Get(format_attrib, "name", <<>>)
        Detected(rate_info) ==
            IF IsNone(rate_info) THEN None
            ELSE IF _is_drop_frame_format(format_name)
            THEN [rate_info EXCEPT !.is_drop_frame = TRUE, !.name = @ \o " Drop Frame"]
            ELSE rate_info
    IN  Detected(IF frame_duration = NoText THEN None
                 ELSE _parse_frame_duration(frame_duration))

\* FrameRateHandler.detected_rates: set in __init__ and never filled
detected_rates == <<>>

\* FrameRateHandler.detect_frame_rate_from_sequence, from the attrib of the
\* sequence element
detect_frame_rate_from_sequence(sequence_attrib) ==
    LET is_drop_frame == Get(sequence_attrib, "tcFormat", "") = "DF"
        format_ref == Get(sequence_attrib, "format", "")
    IN  IF format_ref # "" /\ DictHas(detected_rates, format_ref)
        THEN LET rate_info == DictGet(detected_rates, format_ref)
             IN  IF is_drop_frame /\ ~rate_info.is_drop_frame
                 THEN [rate_info EXCEPT !.is_drop_frame = TRUE,
                                        !.name = @ \o " Drop Frame"]
                 ELSE rate_info
        ELSE None

\* FrameRateHandler.get_primary_frame_rate
get_primary_frame_rate(rates) ==
    IF rates = <<>> THEN FRAME_RATES["29.97df"] ELSE rates[1].value

RECURSIVE DetectFormats(_, _)
\* one pass over format elements: frame_rates[format_id] = rate_info
DetectFormats(attribs, rates) ==
    IF attribs = <<>> THEN rates
    ELSE LET format_id == Get(Head(attribs), "id", "None")
             Stored(rate_info) == IF IsNone(rate_info) THEN rates
                                  ELSE DictSet(rates, format_id, rate_info)
         IN  DetectFormats(Tail(attribs),
                           Stored(detect_frame_rate_from_fcpxml_format(Head(attribs))))

RECURSIVE DetectSequences(_, _)
\* one pass over sequence elements of the parser
DetectSequences(attribs, rates) ==
    IF attribs = <<>> THEN rates
    ELSE LET sequence_rate == detect_frame_rate_from_sequence(Head(attribs))
             sequence_format == Get(Head(attribs), "format", "sequence")
         IN  DetectSequences(Tail(attribs),
                             IF IsNone(sequence_rate) THEN rates
                             ELSE DictSet(rates, "sequence_" \o sequence_format,
                                          sequence_rate))

AttribsOf(trees) == [i \in 1..Len(trees) |-> trees[i].attrib]

\* FCPXMLParser._detect_and_validate_frame_rates on a document, as the
\* frame_rates and primary_frame_rate entries of fcpxml_data
_detect_and_validate_frame_rates(tree) ==
    LET resources == XmlChildren(tree, "resources")
        formats == IF resources = <<>> THEN <<>>
                   ELSE XmlChildren(resources[1], "format")
        from_formats == DetectFormats(AttribsOf(formats), <<>>)
        Validated(detected) ==
            IF detected # <<>>
            THEN [present |-> TRUE, frame_rates |-> detected,
                  primary_frame_rate |-> get_primary_frame_rate(detected)]
            ELSE [present |-> TRUE,
                  frame_rates |->
                      <<[key |-> "default", value |-> FRAME_RATES["29.97df"]]>>,
                  primary_frame_rate |-> FRAME_RATES["29.97df"]]
    IN  Validated(DetectSequences(AttribsOf(XmlAll(tree, "sequence")), from_formats))

(***************************************************************************)
(* CutGenerator.  The operators read self.project_frame_rates,             *)
(* self.primary_frame_rate and self.keep_ranges from the state.  A method   *)
(* is written as the stages of its body, innermost last: each stage is a   *)
(* local operator that takes what the statements before it computed (the   *)
(* heap they left, the Elements they found) as parameters.                  *)
(***************************************************************************)
RECURSIVE AttribsOfIds(_, _)
AttribsOfIds(h, ids) ==
    IF ids = <<>> THEN <<>>
    ELSE <<h[Head(ids)].attrib>> \o AttribsOfIds(h, Tail(ids))

\* detection from the XML that leaves the primary rate unset when no format
\* gives a rate
DetectWithoutFallback(h, rates) ==
    LET Detected(found) ==
            [project_frame_rates |-> found,
             primary_frame_rate |-> IF found # <<>> THEN found[1].value ELSE None]
    IN  Detected(DetectFormats(AttribsOfIds(h, findall(h, original_fcpxml, "format")),
                               rates))

\* CutGenerator._detect_frame_rates_from_xml
_detect_frame_rates_from_xml(h, rates) ==
    LET Detected(found) ==
            [project_frame_rates |-> found,
             primary_frame_rate |-> IF found # <<>> THEN get_primary_frame_rate(found)
                                    ELSE FRAME_RATES["29.97df"]]
    IN  Detected(DetectFormats(AttribsOfIds(h, findall(h, original_fcpxml, "format")),
                               rates))

RECURSIVE UpdateRates(_, _)
\* self.project_frame_rates[resource_id] = rate_info, over a dict
UpdateRates(rates, items) ==
    IF items = <<>> THEN rates
    ELSE UpdateRates(DictSet(rates, Head(items).key, Head(items).value), Tail(items))

\* CutGenerator._extract_frame_rate_info
_extract_frame_rate_info(h, data) ==
    LET rates == IF data.present
                 THEN UpdateRates(project_frame_rates, data.frame_rates)
                 ELSE project_frame_rates
    IN  IF ~IsNone(data.primary_frame_rate)
        THEN [project_frame_rates |-> rates,
              primary_frame_rate |-> data.primary_frame_rate]
        ELSE _detect_frame_rates_from_xml(h, rates)

\* the frame rate context of a conversion: the format's rate, else the
\* primary rate, else None
FrameRateContext(context_format_id) ==
    IF context_format_id # "" /\ DictHas(project_frame_rates, context_format_id)
    THEN DictGet(project_frame_rates, context_format_id)
    ELSE primary_frame_rate

\* CutGenerator._rational_time_to_seconds
_rational_time_to_seconds(rational_time, context_format_id) ==
    LET frame_rate_info == FrameRateContext(context_format_id)
        Fallback(parsed) == IF parsed.ok THEN parsed.value ELSE Zero
    IN  IF rational_time.kind \in {"empty", "nosuffix"} THEN Zero
        ELSE IF ~IsNone(frame_rate_info)
        THEN rational_time_to_seconds(rational_time, frame_rate_info)
        ELSE Fallback(ParseSeconds(rational_time))

\* CutGenerator._seconds_to_rational_time
_seconds_to_rational_time(seconds, context_format_id) ==
    LET frame_rate_info == FrameRateContext(context_format_id)
    IN  IF ~IsNone(frame_rate_info)
        THEN IF frame_rate_info.is_drop_frame /\ Near(frame_rate_info.rate, Rate2997)
             THEN LET total_frames == RRound(RMul(seconds, Rate2997))
                  IN  Frac(total_frames * 1001, 30000)
             ELSE seconds_to_rational_time(seconds, frame_rate_info)
        ELSE FloatSec(seconds)

\* CutGenerator._create_cut_sequence
_create_cut_sequence(h, original_sequence) ==
    LET total_duration == SumSeq(RangeDurations(keep_ranges))
        \* sum() of no terms is the int 0, and f"{0}s" is "0s"
        Text(written) == IF keep_ranges = <<>> /\ written.kind = "float"
                         THEN IntSec(0) ELSE written
        Timed(h1, cut_sequence) ==
            [heap |-> SetAttr(h1, cut_sequence, "duration",
                              Text(_seconds_to_rational_time(
                                       total_duration,
                                       Get(h1[cut_sequence].attrib, "format", "")))),
             id |-> cut_sequence]
        Stripped(copy) ==
            Timed(IF "name" \in DOMAIN copy.heap[copy.id].attrib
                  THEN DelAttr(copy.heap, copy.id, "name")
                  ELSE copy.heap,
                  copy.id)
    IN  Stripped(_deep_copy_element(h, original_sequence))

\* CutGenerator._create_sequential_cut_clip
_create_sequential_cut_clip(h, original_clip, keep_range, timeline_offset, segment_index, format_ref) ==
    LET range_start == keep_range.start
        range_end == keep_range.end
        range_duration == RSub(range_end, range_start)
        new_offset_rational == _seconds_to_rational_time(timeline_offset, format_ref)
        new_start_rational == _seconds_to_rational_time(range_start, format_ref)
        new_duration_rational == _seconds_to_rational_time(range_duration, format_ref)
        Renamed(h3, new_clip, original_name) ==
            [heap |-> SetAttr(h3, new_clip, "name",
                              original_name \o " - Cut " \o ToString(segment_index + 1)),
             id |-> new_clip]
        Timed(h3, new_clip) ==
            Renamed(h3, new_clip, Get(h3[new_clip].attrib, "name", "Multicam Clip"))
        Placed(copy) ==
            Timed(SetAttr(SetAttr(SetAttr(copy.heap, copy.id, "offset",
                                          new_offset_rational),
                                  copy.id, "start", new_start_rational),
                          copy.id, "duration", new_duration_rational),
                  copy.id)
    IN  Placed(_deep_copy_element(h, original_clip))

\* a wrong step of the cumulative offset: the end of the range, not its length
NextOffsetByEnd(cumulative_offset, keep_range) ==
    RAdd(cumulative_offset, keep_range.end)

\* cumulative_offset += (keep_range['end'] - keep_range['start'])
NextOffset(cumulative_offset, keep_range) ==
    RAdd(cumulative_offset, RSub(keep_range.end, keep_range.start))

RECURSIVE AppendCuts(_, _, _, _, _, _)
\* the loop of _apply_cuts_to_multicam_clip_new over self.keep_ranges, from
\* index i (0-based)
AppendCuts(h, mc_clip_element, spine, i, cumulative_offset, format_ref) ==
    IF i >= Len(keep_ranges) THEN h
    ELSE LET keep_range == keep_ranges[i + 1]
             Appended(new_clip) == AppendChild(new_clip.heap, spine, new_clip.id)
         IN  AppendCuts(Appended(_create_sequential_cut_clip(
                                     h, mc_clip_element, keep_range,
                                     cumulative_offset, i, format_ref)),
                        mc_clip_element, spine, i + 1,
                        NextOffset(cumulative_offset, keep_range), format_ref)

\* CutGenerator._apply_cuts_to_multicam_clip_new
_apply_cuts_to_multicam_clip_new(h, mc_clip_element, parent_sequence) ==
    LET format_ref == Get(h[mc_clip_element].attrib, "format", "")
        spine == find(h, parent_sequence, "spine")
    IN  IF spine = 0 THEN h
        ELSE AppendCuts(ClearElement(h, spine), mc_clip_element, spine, 0, Zero,
                        format_ref)

\* only the first of the clips is cut
ProcessFirstClip(h, mc_clips, cut_sequence) ==
    IF mc_clips = <<>> THEN h
    ELSE _apply_cuts_to_multicam_clip_new(h, Head(mc_clips), cut_sequence)

RECURSIVE ProcessClips(_, _, _)
\* for mc_clip in mc_clips: self._apply_cuts_to_multicam_clip_new(...)
ProcessClips(h, mc_clips, cut_sequence) ==
    IF mc_clips = <<>> THEN h
    ELSE ProcessClips(_apply_cuts_to_multicam_clip_new(h, Head(mc_clips), cut_sequence),
                      Tail(mc_clips), cut_sequence)

\* CutGenerator._apply_cuts_to_fcpxml; now is what datetime.now() gives
_apply_cuts_to_fcpxml(h, now) ==
    LET \* the cut sequence gets its placements and goes into the cut project,
        \* the cut project into the event
        Filled(h4, new_root, event, cut_project, cut_sequence) ==
            [heap |-> AppendChild(AppendChild(h4, cut_project, cut_sequence),
                                  event, cut_project),
             root |-> new_root]
        Cut(made, new_root, event, cut_project) ==
            Filled(ProcessClips(made.heap, findall(made.heap, made.id, "mc-clip"),
                                made.id),
                   new_root, event, cut_project, made.id)
        Sequenced(h3, new_root, original_sequence, event) ==
            Cut(_create_cut_sequence(h3, original_sequence), new_root, event, Len(h3))
        Labelled(h2, new_root, original_sequence, event, original_project_name) ==
            Sequenced(Append(h2, Element("project",
                          [name |-> original_project_name \o "_AutoCut_" \o now.stamp,
                           uid |-> "auto-cut-" \o now.stamp,
                           modDate |-> now.utc], <<>>)),
                      new_root, original_sequence, event)
        \* an Element without children is falsy
        Projected(h2, new_root, original_sequence, event, original_project) ==
            Labelled(h2, new_root, original_sequence, event,
                  IF original_project # 0 /\ h2[original_project].children # <<>>
                  THEN Get(h2[original_project].attrib, "name", "Project")
                  ELSE "Project")
        InEvent(h2, new_root, original_sequence, event) ==
            Projected(h2, new_root, original_sequence, event,
                      find(h2, new_root, "project"))
        Located(h1, new_root, original_sequence, found_event, library) ==
            IF original_sequence = 0 THEN [heap |-> h1, root |-> new_root]
            ELSE IF found_event = 0 /\ library = 0 THEN [heap |-> h1, root |-> new_root]
            ELSE IF found_event # 0
            THEN InEvent(h1, new_root, original_sequence, found_event)
            ELSE InEvent(AppendChild(
                             Append(h1, Element("event",
                                 [name |-> "Auto-Cut Events",
                                  uid |-> "auto-cut-event-" \o now.compact], <<>>)),
                             library, Len(h1) + 1),
                         new_root, original_sequence, Len(h1) + 1)
        Copied(copy) ==
            Located(copy.heap, copy.id, find(copy.heap, copy.id, "sequence"),
                    find(copy.heap, copy.id, "event"),
                    find_child(copy.heap, copy.id, "library"))
    IN  Copied(_deep_copy_element(h, original_fcpxml))

RECURSIVE FixAssets(_, _)
\* the loop of _fix_dtd_validation_issues over the asset elements
FixAssets(h, assets) ==
    IF assets = <<>> THEN h
    ELSE LET asset == Head(assets)
         IN  IF find_child(h, asset, "media-rep") # 0 THEN FixAssets(h, Tail(assets))
             ELSE LET h1 == Append(h, Element("media-rep",
                                [kind |-> "original-media",
                                 sig |-> Get(h[asset].attrib, "uid", "placeholder"),
                                 src |-> "file:///placeholder"], <<>>))
                      media_rep == Len(h1)
                  IN  FixAssets(IF find_child(h1, asset, "metadata") # 0
                                THEN InsertFirst(h1, asset, media_rep)
                                ELSE AppendChild(h1, asset, media_rep),
                                Tail(assets))

RECURSIVE FixSequences(_, _)
\* the loop of _fix_dtd_validation_issues over the sequence elements
FixSequences(h, sequences) ==
    IF sequences = <<>> THEN h
    ELSE FixSequences(IF "name" \in DOMAIN h[Head(sequences)].attrib
                      THEN DelAttr(h, Head(sequences), "name")
                      ELSE h,
                      Tail(sequences))

RECURSIVE MoveSequences(_, _, _, _)
\* event.remove(sequence); project.append(sequence), over event's sequences
MoveSequences(h, event, project, sequences) ==
    IF sequences = <<>> THEN h
    ELSE MoveSequences(AppendChild(RemoveChild(h, event, Head(sequences)),
                                   project, Head(sequences)),
                       event, project, Tail(sequences))

\* CutGenerator._fix_dtd_validation_issues
_fix_dtd_validation_issues(h, root, now) ==
    LET Moved(h3, event, project) ==
            AppendChild(MoveSequences(h3, event, project,
                                      findall_child(h3, event, "sequence")),
                        event, project)
        Wrapped(h2, project, event) ==
            IF project = 0 /\ event # 0
            THEN Moved(Append(h2, Element("project",
                           [name |-> "Auto-Cut Project", uid |-> "auto-generated",
                            modDate |-> now.local], <<>>)),
                       event, Len(h2) + 1)
            ELSE h2
        Sequenced(h2) == Wrapped(h2, find(h2, root, "project"), find(h2, root, "event"))
        Repaired(h1) == Sequenced(FixSequences(h1, findall(h1, root, "sequence")))
    IN  Repaired(FixAssets(h, findall(h, root, "asset")))

\* CutGenerator._save_fcpxml: the Elements after the fixes and the document
\* written
_save_fcpxml(h, root, now) ==
    LET Written(fixed) == [heap |-> fixed, file |-> ToXml(fixed, root)]
    IN  Written(_fix_dtd_validation_issues(h, root, now))

\* CutGenerator._add_cut_metadata: the .json written next to the output
_add_cut_metadata(mapping) ==
    [original_duration |-> mapping.total_original_duration,
     cleaned_duration |-> mapping.total_cleaned_duration,
     time_saved |-> RSub(mapping.total_original_duration,
                         mapping.total_cleaned_duration),
     cuts_applied |-> Len(mapping.cut_ranges),
     segments_kept |-> Len(mapping.keep_ranges)]

(***************************************************************************)
(* Inputs of the cut generator: FCPXML documents, the timing mapping of a   *)
(* cleaned transcript and the parser's frame rate data.                     *)
(***************************************************************************)
\* the frameDuration and name of the format resource
Formats ==
    [df2997 |-> [id |-> "r1", frameDuration |-> Frac(1001, 30000),
                 name |-> <<"FFVideoFormat", "1080p", "2997">>],
     ndf2997 |-> [id |-> "r1", frameDuration |-> Frac(1001, 30000)],
     p25 |-> [id |-> "r1", frameDuration |-> Frac(100, 2500),
              name |-> <<"FFVideoFormat", "1080p", "25">>],
     p24 |-> [id |-> "r1", frameDuration |-> Frac(100, 2400),
              name |-> <<"FFVideoFormat", "1080p", "24">>],
     unit24 |-> [id |-> "r1", frameDuration |-> Frac(1, 24),
                 name |-> <<"FFVideoFormat", "1080p", "24">>],
     p48 |-> [id |-> "r1", frameDuration |-> Frac(100, 4800),
              name |-> <<"FFVideoFormat", "1080p", "48">>],
     undefined |-> [id |-> "r1", name |-> <<"FFVideoFormat", "RateUndefined">>]]

Assets ==
    [complete |-> <<Element("asset", [id |-> "r2", uid |-> "A1B2"],
                        <<Element("media-rep", [kind |-> "original-media",
                                                src |-> "file:///cam.mov"], <<>>)>>)>>,
     bare |-> <<Element("asset", [id |-> "r2", uid |-> "A1B2"], <<>>)>>,
     described |-> <<Element("asset", [id |-> "r2"],
                         <<Element("metadata", <<>>, <<>>)>>)>>,
     none |-> <<>>]

McClip(name, attrib) ==
    Element("mc-clip",
            attrib @@ [ref |-> "r3", name |-> name, offset |-> IntSec(0),
                       start |-> IntSec(0), duration |-> IntSec(60)],
            <<Element("mc-source", [angleID |-> "cam1", srcEnable |-> "all"], <<>>)>>)

Spines ==
    LET Gap(seconds) ==
            Element("gap", [name |-> "Gap", offset |-> IntSec(0),
                            duration |-> IntSec(seconds)], <<>>)
    IN  [single |-> <<McClip("Interview", <<>>)>>,
         formatted |-> <<McClip("Test", [format |-> "r1"])>>,
         several |-> <<Gap(2), McClip("Take A", [offset |-> IntSec(2)]),
                       McClip("Take B", [format |-> "r1"])>>,
         plain |-> <<Gap(2)>>]

Sequence(attrib, spine) ==
    Element("sequence",
            attrib @@ [format |-> "r1", duration |-> IntSec(60), tcFormat |-> "NDF"],
            <<Element("spine", <<>>, spine)>>)

Project(sequence) == Element("project", [name |-> "Test", uid |-> "P1"], <<sequence>>)

\* a document: the resources, then the project inside library and event,
\* inside an event, beside an empty library, or directly under the root
Fcpxml(format, asset, place, body) ==
    Element("fcpxml", [version |-> "1.9"],
        <<Element("resources", <<>>, <<Element("format", format, <<>>)>> \o asset)>>
        \o CASE place = "library" ->
                    <<Element("library", [location |-> "file:///lib"],
                          <<Element("event", [name |-> "Shoot"], body)>>)>>
             [] place = "event" -> <<Element("event", [name |-> "Shoot"], body)>>
             [] place = "beside" ->
                    <<Element("library", [location |-> "file:///lib"], <<>>)>> \o body
             [] place = "root" -> body)

Documents ==
    {Fcpxml(Formats.df2997, Assets.complete, "library",
            <<Project(Sequence(<<>>, Spines.single))>>),
     Fcpxml(Formats.ndf2997, Assets.bare, "library",
            <<Project(Sequence(<<>>, Spines.several))>>),
     Fcpxml(Formats.df2997, Assets.none, "event",
            <<Project(Sequence([name |-> "Test Seq"], Spines.several))>>),
     Fcpxml(Formats.p25, Assets.described, "event",
            <<Project(Sequence([name |-> "Test Seq"], Spines.single))>>),
     Fcpxml(Formats.p24, Assets.complete, "library",
            <<Project(Sequence(<<>>, Spines.formatted))>>),
     Fcpxml(Formats.unit24, Assets.none, "beside",
            <<Project(Sequence(<<>>, Spines.single))>>),
     Fcpxml(Formats.ndf2997, Assets.none, "root",
            <<Project(Sequence([name |-> "Test Seq"], Spines.formatted))>>),
     Fcpxml(Formats.undefined, Assets.bare, "library",
            <<Project(Sequence(<<>>, Spines.plain))>>),
     Fcpxml(Formats.undefined, Assets.none, "library", <<>>),
     Fcpxml(Formats.ndf2997, Assets.complete, "event",
            <<Project(Sequence([tcFormat |-> "DF"], Spines.single))>>),
     Fcpxml(Formats.p48, Assets.bare, "library",
            <<Project(Sequence([name |-> "Test Seq"], Spines.formatted))>>),
     Fcpxml(Formats.undefined, Assets.complete, "event",
            <<Project(Sequence(<<>>, Spines.single))>>)}

\* keep ranges in quarter seconds: the lengths and the gaps (above one
\* second, as the cleaner merges anything closer) they are built from
RangeLengths == {1, 20, 40, 60}

RECURSIVE SpanLists(_)
\* the lists of at most n spans, each a gap after the one before
SpanLists(n) ==
    IF n = 0 THEN {<<>>}
    ELSE LET shorter == SpanLists(n - 1)
             \* where the span after a list of spans starts
             NextSpanStart(l, gap) == IF l = <<>> THEN 0 ELSE l[Len(l)][2] + gap
         IN  shorter \cup
             {Append(l, <<NextSpanStart(l, gap), NextSpanStart(l, gap) + len>>) :
                 l \in {s \in shorter : Len(s) = n - 1},
                 len \in RangeLengths, gap \in {20}}

\* the timing mapping of a transcript whose kept segments are the spans
MappingOfSpans(spans) ==
    _create_timing_mapping(
        [i \in 1..Len(spans) |-> CleaningSegment(spans[i], <<"kept">>, Zero, i - 1)],
        [i \in 1..Len(spans) |-> i])

(***************************************************************************)
(* The editing phase of the workflow, which hands generate_cut_fcpxml its   *)
(* edited_segments.  The editing service's answer and the alignment of its  *)
(* text with the segments are given by the set of segments the alignment    *)
(* found words of: a reply is that set, or the call raising.  MaxEdited is  *)
(* the longest span list the phase is run on.                               *)
(***************************************************************************)
MaxEdited == 2

\* the 'segments' of _generate_cleaned_transcription, one by kept span
CleanedSegments(spans) ==
    [i \in 1..Len(spans) |->
        [id |-> i - 1, start |-> Q(spans[i][1]), end |-> Q(spans[i][2])]]

\* TranscriptEditor.edit_transcript: the segments with their keep flags, or
\* the segments as they came when the service call raised
edit_transcript(segs, reply) ==
    IF reply.raises THEN segs
    ELSE [i \in 1..Len(segs) |->
             [id |-> segs[i].id, start |-> segs[i].start, end |-> segs[i].end,
              keep |-> i \in reply.segments_to_keep]]

\* phase 5 of process_multicam_clip, for a caller that ran the parser:
\* editing disabled or nothing to edit (None), the editor raising before its
\* own try (None), the editor's result for a reply or for the call raising.
\* The lists called supplied are those a caller of generate_cut_fcpxml
\* builds itself: a kept segment filling the gap between the first two
\* spans, a kept segment over all spans, and a removed segment over all
\* spans before a kept first one
EditingPhases(spans, parsed) ==
    LET none == [present |-> FALSE, list |-> <<>>]
        some(l) == [present |-> TRUE, list |-> l]
        over(l, keep) == [start |-> Q(l[1][1]), end |-> Q(l[Len(l)][2]), keep |-> keep]
        replies(segs) ==
            {[raises |-> TRUE, segments_to_keep |-> {}]}
            \cup {[raises |-> FALSE, segments_to_keep |-> kept] :
                     kept \in SUBSET (1..Len(segs))}
        edited(segs) ==
            {[editing |-> IF reply.raises THEN "failed" ELSE "edited",
              edited_segments |-> some(edit_transcript(segs, reply))] :
                 reply \in replies(segs)}
        supplied(l) ==
            {[editing |-> "supplied", edited_segments |-> some(given)] :
                given \in {<<[start |-> Q(l[1][2]), end |-> Q(l[2][1]), keep |-> TRUE]>>,
                           <<over(l, TRUE)>>,
                           <<over(l, FALSE), over(<<l[1]>>, TRUE)>>}}
    IN  {[editing |-> "off", edited_segments |-> none]}
        \cup IF ~parsed \/ spans = <<>> \/ Len(spans) > MaxEdited THEN {}
             ELSE {[editing |-> "raised", edited_segments |-> none]}
                  \cup edited(CleanedSegments(spans))
                  \cup IF Len(spans) < 2 THEN {} ELSE supplied(spans)

\* what datetime.now() gives, in the formats the generator writes
Clock ==
    {[stamp |-> "20250915_061830", compact |-> "20250915061830",
      utc |-> "2025-09-15 10:18:30 +0000", local |-> "2025-09-15 06:18:30 "]}

\* the ranges any segment overlaps, whatever its keep flag
FilterByOverlapAlone(ranges, edited) ==
    LET overlapped(keep_range) ==
            \E i \in 1..Len(edited) :
                /\ RLess(Get(edited[i], "start", Zero), keep_range.end)
                /\ RLess(keep_range.start, Get(edited[i], "end", Zero))
    IN  SelectSeq(ranges, overlapped)

\* _filter_ranges_by_edited_segments: the ranges a segment marked keep overlaps
_filter_ranges_by_edited_segments(ranges, edited) ==
    LET should_keep(keep_range) ==
            \E i \in 1..Len(edited) :
                /\ RLess(Get(edited[i], "start", Zero), keep_range.end)
                /\ RLess(keep_range.start, Get(edited[i], "end", Zero))
                /\ Get(edited[i], "keep", FALSE)
    IN  SelectSeq(ranges, should_keep)

(***************************************************************************)
(* generate_cut_fcpxml, step by step.                                       *)
(***************************************************************************)
\* a caller hands over the original document, the cleaned transcript data,
\* when it ran the parser the parser's frame rate data, and the edited
\* segments its editing phase ended with
CallGenerateCutFcpxml ==
    /\ pc = "cut_idle"
    /\ \E doc \in Documents, spans \in SpanLists(MaxRanges), parsed \in BOOLEAN :
          /\ input_file' = doc
          /\ timing_mapping' = MappingOfSpans(spans)
          /\ fcpxml_data' = IF parsed THEN _detect_and_validate_frame_rates(doc)
                            ELSE [present |-> FALSE, frame_rates |-> <<>>,
                                  primary_frame_rate |-> None]
          /\ \E phase \in EditingPhases(spans, parsed) :
                /\ editing' = phase.editing
                /\ edited_segments' = phase.edited_segments
    /\ pc' = "load"
    /\ UNCHANGED <<segments, take_groups, keeper_segments, heap, original_fcpxml,
                   project_frame_rates, primary_frame_rate, keep_ranges,
                   modified_tree, output_file, metadata_file, timeVars, flowVars>>

\* _load_original_fcpxml
LoadOriginalFcpxml ==
    /\ pc = "load"
    /\ \E parsed \in {ParseElement(heap, input_file)} :
          /\ heap' = parsed.heap
          /\ original_fcpxml' = parsed.id
    /\ pc' = "extract"
    /\ UNCHANGED <<cleanerVars, input_file, fcpxml_data, project_frame_rates,
                   primary_frame_rate, keep_ranges, editing, edited_segments,
                   modified_tree, output_file, metadata_file, timeVars, flowVars>>

\* _extract_frame_rate_info, then self.keep_ranges = timing_mapping['keep_ranges'],
\* filtered when edited_segments is neither None nor empty
ExtractFrameRateInfo ==
    /\ pc = "extract"
    /\ \E info \in {_extract_frame_rate_info(heap, fcpxml_data)} :
          /\ project_frame_rates' = info.project_frame_rates
          /\ primary_frame_rate' = info.primary_frame_rate
    /\ keep_ranges' = IF edited_segments.present /\ edited_segments.list # <<>>
                       THEN _filter_ranges_by_edited_segments(
                                timing_mapping.keep_ranges, edited_segments.list)
                       ELSE timing_mapping.keep_ranges
    /\ pc' = "apply"
    /\ UNCHANGED <<cleanerVars, input_file, fcpxml_data, heap, original_fcpxml,
                   editing, edited_segments, modified_tree, output_file,
                   metadata_file, timeVars, flowVars>>

\* modified_tree = self._apply_cuts_to_fcpxml()
ApplyCutsToFcpxml ==
    /\ pc = "apply"
    /\ \E now \in Clock :
          \E applied \in {_apply_cuts_to_fcpxml(heap, now)} :
             /\ heap' = applied.heap
             /\ modified_tree' = applied.root
    /\ pc' = "save"
    /\ UNCHANGED <<cleanerVars, input_file, fcpxml_data, original_fcpxml,
                   project_frame_rates, primary_frame_rate, keep_ranges,
                   editing, edited_segments, output_file, metadata_file, timeVars,
                   flowVars>>

\* self._save_fcpxml(modified_tree, output_path), then _add_cut_metadata
SaveFcpxml ==
    /\ pc = "save"
    /\ \E now \in Clock :
          \E written \in {_save_fcpxml(heap, modified_tree, now)} :
             /\ heap' = written.heap
             /\ output_file' = written.file
    /\ metadata_file' = _add_cut_metadata(timing_mapping)
    /\ pc' = "generated"
    /\ UNCHANGED <<cleanerVars, input_file, fcpxml_data, original_fcpxml,
                   project_frame_rates, primary_frame_rate, keep_ranges,
                   editing, edited_segments, modified_tree, timeVars, flowVars>>

InitCut ==
    /\ pc = "cut_idle"
    /\ CleanerIdle
    /\ CutIdle
    /\ TimeIdle
    /\ FlowIdle

NextCut ==
    \/ CallGenerateCutFcpxml
    \/ LoadOriginalFcpxml
    \/ ExtractFrameRateInfo
    \/ ApplyCutsToFcpxml
    \/ SaveFcpxml

SpecCut == InitCut /\ [][NextCut]_vars

(***************************************************************************)
(* The transcription phase of process_multicam_clip.  A transcript is its   *)
(* 'segments', each a span in quarter seconds and its words.  The cache     *)
(* file is missing, or not loadable (no JSON, no 'transcript' key, no       *)
(* permission), or JSON with a 'transcript' entry.  The log lists what the  *)
(* run did to the cache file and to the transcription service.              *)
(***************************************************************************)
\* what the service returns for the audio: two segments, or none
ServiceResults ==
    {[segments |-> <<[span |-> <<0, 4>>, text |-> <<"so", "today">>],
                     [span |-> <<12, 16>>, text |-> <<"let's", "continue">>]>>],
     [segments |-> <<>>]}

\* _load_cached_transcript: data['transcript'], or None when the file is
\* missing or reading it raises
_load_cached_transcript(file) ==
    IF file.kind = "json" THEN file.transcript ELSE None

\* the file no write changes
KeepCacheFile(file, transcript, outcome) == file

\* _save_transcript_cache: the file after open(cache_path, 'w') and
\* json.dump; "denied" is open raising, "truncated" is json.dump raising
\* after open emptied the file.  Both are caught and logged.
_save_transcript_cache(file, transcript, outcome) ==
    CASE outcome = "written" -> [kind |-> "json", transcript |-> transcript]
      [] outcome = "denied" -> file
      [] outcome = "truncated" -> [kind |-> "unloadable"]

\* process_multicam_clip is called; phases 1 and 2 gave the audio file, and
\* with it the cache path.  The cache file is missing, not loadable, or
\* holds "transcript": null, an earlier result of the service or another
\* transcript
CallProcessMulticamClip ==
    /\ pc = "flow_idle"
    /\ options' \in [transcription_method : {"api", "local", "demo"},
                     use_cached_transcript : BOOLEAN,
                     force_retranscribe : BOOLEAN]
    /\ cache_file' \in
          {[kind |-> "missing"], [kind |-> "unloadable"],
           [kind |-> "json", transcript |-> None]}
          \cup {[kind |-> "json", transcript |-> t] :
                   t \in ServiceResults
                         \cup {[segments |-> <<[span |-> <<2, 6>>, text |-> <<"um">>]>>]}}
    /\ pc' = "transcription"
    /\ UNCHANGED <<cleanerVars, cutVars, timeVars, transcription, log>>

\* Phase 3 up to `if transcription is None`; of _create_demo_transcript the
\* first two segments
LoadCachedTranscript ==
    /\ pc = "transcription"
    /\ IF options.transcription_method = "demo"
       THEN /\ transcription' =
                  [segments |->
                      <<[span |-> <<0, 10>>, text |-> <<"So,", "um,", "today">>],
                        [span |-> <<10, 20>>, text |-> <<"uh,", "the", "new">>]>>]
            /\ log' = log
       ELSE IF options.use_cached_transcript /\ ~options.force_retranscribe
       THEN /\ transcription' = _load_cached_transcript(cache_file)
            /\ log' = Append(log, "cache_read")
       ELSE /\ transcription' = None
            /\ log' = log
    /\ pc' = IF transcription' = None THEN "transcribe" ELSE "clean"
    /\ UNCHANGED <<cleanerVars, cutVars, timeVars, options, cache_file>>

\* transcription = self._perform_transcription(...): the service answers,
\* or raises and the run ends with the exception
PerformTranscription ==
    /\ pc = "transcribe"
    /\ \/ \E result \in ServiceResults :
             /\ transcription' = result
             /\ log' = Append(log, "service_call")
             /\ pc' = "save_cache"
       \/ /\ log' = Append(log, "service_raised")
          /\ pc' = "flow_raised"
          /\ UNCHANGED transcription
    /\ UNCHANGED <<cleanerVars, cutVars, timeVars, options, cache_file>>

\* self._save_transcript_cache(cache_path, transcription, ...)
SaveTranscriptCache ==
    /\ pc = "save_cache"
    /\ \E outcome \in {"written", "denied", "truncated"} :
          /\ cache_file' = _save_transcript_cache(cache_file, transcription, outcome)
          /\ log' = Append(log, IF outcome = "written" THEN "cache_write"
                                ELSE "cache_write_failed")
    /\ pc' = "clean"
    /\ UNCHANGED <<cleanerVars, cutVars, timeVars, options, transcription>>

\* Phase 4 begins: clean_transcript converts transcription['segments']
CleanTranscript ==
    /\ pc = "clean"
    /\ segments' = [i \in 1..Len(transcription.segments) |->
                       CleaningSegment(transcription.segments[i].span,
                                       transcription.segments[i].text, Zero, i - 1)]
    /\ pc' = "cleaning"
    /\ UNCHANGED <<take_groups, keeper_segments, timing_mapping, cutVars, timeVars,
                   flowVars>>

InitFlow ==
    /\ pc = "flow_idle"
    /\ CleanerIdle
    /\ CutIdle
    /\ TimeIdle
    /\ FlowIdle

NextFlow ==
    \/ CallProcessMulticamClip
    \/ LoadCachedTranscript
    \/ PerformTranscription
    \/ SaveTranscriptCache
    \/ CleanTranscript

SpecFlow == InitFlow /\ [][NextFlow]_vars

(***************************************************************************)
(* Properties of the timing mapper.                                        *)
(***************************************************************************)
Cleaned == pc = "cleaned"

\* t lies in one of the half-open ranges [start, end)
Covers(ranges, t) ==
    \E i \in 1..Len(ranges) : RLeq(ranges[i].start, t) /\ RLess(t, ranges[i].end)

\* the instants k/8 s of [0, total)
Instants(total) == {Rat(k, 8) : k \in 0..(RTrunc(RMul(total, <<8, 1>>)))} \ {total}

NothingKept == Cleaned /\ keeper_segments = <<>>

\* C1: for every transcript, none kept included, the keep range durations
\* plus the cut range durations add up to total_original_duration.
C1_DurationsAddUp ==
    Cleaned =>
        RAdd(SumSeq(RangeDurations(timing_mapping.keep_ranges)),
             SumSeq(RangeDurations(timing_mapping.cut_ranges)))
          = timing_mapping.total_original_duration

\* C2: the keep ranges are sorted by start and pairwise non-overlapping.
C2_KeepRangesSortedDisjoint ==
    Cleaned =>
        LET kr == timing_mapping.keep_ranges
        IN  \A i, j \in 1..Len(kr) :
                i < j => /\ RLeq(kr[i].start, kr[j].start)
                         /\ ~(RLess(kr[i].start, kr[j].end) /\ RLess(kr[j].start, kr[i].end))

\* C2 witness: overlapping kept segments were merged and a later one opened a
\* second range.
C2_Witness ==
    /\ Cleaned
    /\ Len(timing_mapping.keep_ranges) >= 2
    /\ \E a, b \in 1..Len(keeper_segments) :
          /\ a < b
          /\ RLess(segments[keeper_segments[b]].start_time,
                   segments[keeper_segments[a]].end_time)

\* C4: cut_ranges is exactly the complement of keep_ranges in
\* [0, total_original_duration]: every instant of the timeline lies in a cut
\* range iff it lies in no keep range, and every cut range is a non-empty
\* part of the timeline.
C4_CutRangesAreComplement ==
    Cleaned =>
        LET kr == timing_mapping.keep_ranges
            cr == timing_mapping.cut_ranges
            total == timing_mapping.total_original_duration
        IN  /\ \A t \in Instants(total) : Covers(cr, t) <=> ~Covers(kr, t)
            /\ \A i \in 1..Len(cr) :
                  /\ RLeq(Zero, cr[i].start)
                  /\ RLess(cr[i].start, cr[i].end)
                  /\ RLeq(cr[i].end, total)

\* C5: with zero kept segments the mapper returns no keep range and a single
\* cut range spanning [0, total_original_duration].
C5_NothingKeptCutsEverything ==
    NothingKept =>
        /\ timing_mapping.keep_ranges = <<>>
        /\ timing_mapping.cut_ranges =
              <<[start |-> Zero, end |-> timing_mapping.total_original_duration]>>

(***************************************************************************)
(* Properties of take selection and clustering.                            *)
(***************************************************************************)
Selected == pc \in {"mark", "map", "cleaned"}

\* 0.5*(index/(n-1)) + 0.3*(len(cleaned_text)/max_len_in_group)
\* + 0.2*confidence, for the member at 0-based index i of a group of n >= 2
StatedScore(group, i) ==
    LET n == Len(group.segments)
        LenOf(k) == CharLen(segments[group.segments[k + 1]].cleaned_text)
        max_len == CHOOSE m \in {LenOf(k) : k \in 0..(n - 1)} :
                      \A k \in 0..(n - 1) : LenOf(k) <= m
    IN  RAdd(RAdd(RMul(<<1, 2>>, Rat(i, n - 1)),
                  RMul(<<3, 10>>, Rat(LenOf(i), max_len))),
             RMul(<<1, 5>>, segments[group.segments[i + 1]].confidence))

\* C11: in every take group the member kept has the maximum score, and of
\* the members sharing the maximum score it is the one of highest index.
C11_BestTakeIsLatestOfMaximum ==
    Selected =>
        \A g \in 1..Len(take_groups) :
            LET group == take_groups[g]
                best == group.best_take_index
            IN  \A k \in 0..(Len(group.segments) - 1) :
                    /\ RLeq(StatedScore(group, k), StatedScore(group, best))
                    /\ k > best => RLess(StatedScore(group, k), StatedScore(group, best))

Marked == pc \in {"map", "cleaned"}

\* the positions held by a list of positions
Held(positions) == {positions[k] : k \in 1..Len(positions)}

\* the member a take group keeps
Winner(group) == group.segments[group.best_take_index + 1]

\* the segments that are members of some take group
Grouped == UNION {Held(take_groups[g].segments) : g \in 1..Len(take_groups)}

\* C12: the kept segments are exactly the winner of each take group and the
\* segments of no take group whose cleaned text is not empty, each once, in
\* start-time order.
C12_KeepersAreWinnersAndLoners ==
    Marked =>
        /\ Held(keeper_segments)
              = {Winner(take_groups[g]) : g \in 1..Len(take_groups)}
                \cup {k \in 1..Len(segments) :
                         k \notin Grouped /\ segments[k].cleaned_text # <<>>}
        /\ Cardinality(Held(keeper_segments)) = Len(keeper_segments)
        /\ \A a, b \in 1..Len(keeper_segments) :
              a < b => RLeq(segments[keeper_segments[a]].start_time,
                            segments[keeper_segments[b]].start_time)

\* C12 witness: a take group lost a member, and a segment of no group that
\* starts before the group's winner is kept.
C12_Witness ==
    /\ Marked
    /\ take_groups # <<>>
    /\ \E k \in Held(keeper_segments) \ Grouped :
          RLess(segments[k].start_time, segments[Winner(take_groups[1])].start_time)
    /\ Grouped \ Held(keeper_segments) # {}

Identified == pc \in {"select", "mark", "map", "cleaned"}

\* other.start_time - segment.end_time of the segments at positions i and j
TimeGap(i, j) == RSub(segments[j].start_time, segments[i].end_time)

Similar(i, j) ==
    RLeq(similarity_threshold,
         _calculate_similarity(segments[i].cleaned_text, segments[j].cleaned_text))

\* the first member of a take group
Leader(group) == group.segments[1]

\* the segments grouped before the pass comes to segment i
TakenBefore(i) ==
    UNION {Held(take_groups[g].segments) :
              g \in {h \in 1..Len(take_groups) : Leader(take_groups[h]) < i}}

\* the later free segments that join segment i: similar to it, within the
\* window, and before the first free segment beyond the window
Joins(i, taken) ==
    {j \in (i + 1)..Len(segments) :
        /\ j \notin taken
        /\ RLeq(TimeGap(i, j), time_window)
        /\ Similar(i, j)
        /\ \A e \in (i + 1)..(j - 1) : e \notin taken => RLeq(TimeGap(i, e), time_window)}

Keeper(k) == segments[keeper_segments[k]]

\* the places of keeper_segments where a keep range opens: the first, and
\* each whose start is more than the merge gap after the end of the keeper
\* before it (the current end of the open range)
Opens ==
    {k \in 1..Len(keeper_segments) :
        k = 1 \/ RLess(merge_gap, RSub(Keeper(k).start_time, Keeper(k - 1).end_time))}

\* C14: consecutive keep ranges are more than 1.0 s apart; a range opens at
\* each kept segment that starts more than 1.0 s after the current end of
\* the open range, and every other kept segment extends the open range to
\* its own end.
C14_KeepRangesApart ==
    Cleaned =>
        LET kr == timing_mapping.keep_ranges
        IN  /\ \A i \in 1..(Len(kr) - 1) :
                  RLess(merge_gap, RSub(kr[i + 1].start, kr[i].end))
            /\ Len(kr) = Cardinality(Opens)
            /\ \A k \in Opens :
                  LET i == Cardinality({o \in Opens : o <= k})
                      later == {o \in Opens : o > k}
                      last == IF later = {} THEN Len(keeper_segments)
                              ELSE (CHOOSE o \in later : \A l \in later : o <= l) - 1
                  IN  /\ kr[i].start = Keeper(k).start_time
                      /\ kr[i].end = Keeper(last).end_time

\* C14 witness: a kept segment exactly 1.0 s after the one before it was
\* merged, and another kept segment opened a second range.
C14_Witness ==
    /\ Cleaned
    /\ Len(timing_mapping.keep_ranges) >= 2
    /\ \E k \in 2..Len(keeper_segments) :
          RSub(Keeper(k).start_time, Keeper(k - 1).end_time) = merge_gap

\* the segments (0, 2, 'so today'), (2, 4, 'so, um, today'),
\* (10, 12, "let's continue") were transcribed
RetakeScenario ==
    /\ Len(segments) = 3
    /\ [k \in 1..3 |-> <<segments[k].start_time, segments[k].end_time,
                          segments[k].original_text>>]
          = <<<<Int2Rat(0), Int2Rat(2), <<"so", "today">>>>,
              <<Int2Rat(2), Int2Rat(4), <<"so,", "um,", "today">>>>,
              <<Int2Rat(10), Int2Rat(12), <<"let's", "continue">>>>>>

\* C15: in the scenario segments 0 and 1 form the one take group, segment 1
\* wins it, segment 2 is kept on its own, and the mapping keeps (2, 4) and
\* (10, 12) and cuts (0, 2) and (4, 10).
C15_RetakeScenario ==
    (Cleaned /\ RetakeScenario) =>
        /\ take_groups = <<[segments |-> <<1, 2>>, best_take_index |-> 1]>>
        /\ keeper_segments = <<2, 3>>
        /\ timing_mapping.keep_ranges
              = <<[start |-> Int2Rat(2), end |-> Int2Rat(4)],
                  [start |-> Int2Rat(10), end |-> Int2Rat(12)]>>
        /\ timing_mapping.cut_ranges
              = <<[start |-> Int2Rat(0), end |-> Int2Rat(2)],
                  [start |-> Int2Rat(4), end |-> Int2Rat(10)]>>

\* C15 witness: the scenario was cleaned to the end.
C15_Witness == Cleaned /\ RetakeScenario

(***************************************************************************)
(* Properties of the rational time engine.                                 *)
(***************************************************************************)
\* the seconds a well-formed time text denotes
TextValue(t) ==
    CASE t.kind = "frac" -> Rat(t.num, t.den)
      [] t.kind = "int" -> Int2Rat(t.num)
      [] t.kind = "float" -> t.value

\* v seconds is a whole number of frames of fr
FrameAligned(v, fr) ==
    RMul(v, Rat(fr.timebase, fr.timescale))[2] = 1

\* t is a well-formed text, "<int>s" under a rate of timescale 1 or
\* "<int>/<timebase>s", on a frame boundary of fr
OnFrameBoundary(t, fr) ==
    /\ \/ (t.kind = "int" /\ fr.timescale = 1)
       \/ (t.kind = "frac" /\ t.den = fr.timebase)
    /\ FrameAligned(TextValue(t), fr)

\* C10: a time on a frame boundary, converted to seconds and back under the
\* same frame rate, comes back as exactly the same time text.
C10_RoundTrip ==
    (pc = "time_done" /\ OnFrameBoundary(t_in, t_frame_rate)) => t_out = t_in

\* rational_time_to_seconds has returned or has raised
ToSecondsLeft == pc \notin {"time_idle", "to_seconds"}

\* a time text with no trailing 's', with content that is no number ("abcs",
\* "infs", "nans"), with a zero denominator, or empty
Malformed(t) ==
    \/ t.kind \in {"empty", "nosuffix", "garbage"}
    \/ t.kind = "frac" /\ t.den = 0
    \/ t.kind = "float" /\ t.value[2] = 0

\* C17: a malformed time text converts to 0.0 seconds and the conversion
\* raises nothing; a well-formed "n/ds" with no frame rate context converts
\* to n/d.
C17_MalformedDegradesToZero ==
    /\ (ToSecondsLeft /\ Malformed(t_in)) =>
           (pc # "seconds_raised" /\ t_seconds = Zero)
    /\ (pc = "seconds_done" /\ t_in.kind = "frac" /\ t_in.den # 0) =>
           t_seconds = Rat(t_in.num, t_in.den)

\* a time text of the grammar "<int>s" or "<int>/<int>s", <int> being
\* unsigned digits
InGrammar(t) ==
    \/ t.kind = "int" /\ t.num >= 0
    \/ t.kind = "frac" /\ t.num >= 0 /\ t.den >= 0

\* C18: only "<int>s" and "<int>/<int>s" are parsed; any other text, a
\* decimal ("1.5s"), a signed ("-3s") or an exponent form ("1e3s") among
\* them, is not converted to a time other than zero.
C18_OnlyTheTwoGrammars ==
    (ToSecondsLeft /\ ~InGrammar(t_in)) => t_seconds = Zero

\* a time text that parses to a finite number
Finite(t) ==
    \/ t.kind = "int"
    \/ t.kind = "frac" /\ t.den > 0
    \/ t.kind = "float" /\ t.value[2] # 0

\* the forward drop frame correction as stated, floor being \div
StatedCorrection(seconds, fr) ==
    LET K == IF Near(fr.rate, Rate2997) THEN 2
             ELSE IF Near(fr.rate, Rate5994) THEN 4 ELSE 0
        Corrected(total_frames) ==
            LET Minutes(quotient) == quotient[1] \div quotient[2]
                Dropped(minutes) == minutes * K - (minutes \div 10) * K
            IN  RDiv(RAdd(total_frames,
                          Int2Rat(Dropped(Minutes(RDiv(total_frames,
                                                       RMul(fr.rate, <<60, 1>>)))))),
                     fr.rate)
    IN  Corrected(RMul(seconds, fr.rate))

\* C19: under a drop frame rate the seconds of a time text are those of the
\* forward correction (K frames a minute but each tenth minute, K = 2 for
\* 29.97 and 4 for 59.94); under any other rate they are the number the
\* text denotes, unchanged.
C19_ForwardDropFrameCorrection ==
    (ToSecondsLeft /\ ~IsNone(t_frame_rate) /\ Finite(t_in)) =>
        t_seconds = IF t_frame_rate.is_drop_frame
                    THEN StatedCorrection(TextValue(t_in), t_frame_rate)
                    ELSE TextValue(t_in)

\* a drop frame conversion of a time past its tenth minute
C19_Witness ==
    /\ ToSecondsLeft
    /\ ~IsNone(t_frame_rate)
    /\ t_frame_rate.is_drop_frame
    /\ Finite(t_in)
    /\ RLess(<<600, 1>>, TextValue(t_in))
    /\ RLess(TextValue(t_in), t_seconds)

\* "<numerator>/<timebase>s", the numerator round(seconds * timebase)
StatedRational(seconds, fr) ==
    Frac(RRound(RMul(seconds, Int2Rat(fr.timebase))), fr.timebase)

\* C20: the text written for seconds, after the reverse drop frame
\* correction, is "<numerator>/<timebase>s" with the numerator
\* round(seconds * timebase); a rate of one tick a second (the branch the
\* handler takes on timescale 1) may write plain integer seconds "<int>s".
C20_SecondsToRational ==
    pc = "time_done" =>
        LET Stated(secs) ==
                \/ t_out = StatedRational(secs, t_frame_rate)
                \/ /\ t_frame_rate.timescale = 1
                   /\ t_out = IntSec(RRound(secs))
        IN  Stated(_reverse_drop_frame_correction(t_seconds, t_frame_rate))

(***************************************************************************)
(* Properties of the cut generator.                                        *)
(***************************************************************************)
Generated == pc = "generated"

\* the projects of a document that the generator made
CutProjects(doc) ==
    SelectSeq(XmlAll(doc, "project"),
              LAMBDA p : Get(p.attrib, "uid", "") \in {"auto-cut-" \o c.stamp : c \in Clock})

\* the original sequence has a spine and a multicam clip, and a cut project
\* was written
Reconstructed ==
    /\ Generated
    /\ XmlAll(input_file, "sequence") # <<>>
    /\ XmlAll(XmlAll(input_file, "sequence")[1], "spine") # <<>>
    /\ XmlAll(XmlAll(input_file, "sequence")[1], "mc-clip") # <<>>
    /\ CutProjects(output_file) # <<>>

\* the sequence of the cut project of the output file
CutSequence == XmlAll(CutProjects(output_file)[1], "sequence")[1]

\* the children of the spine of the cut sequence
Placements == XmlAll(CutSequence, "spine")[1].children

\* the frame rate a time of an element is written under
WrittenRate(element) == FrameRateContext(Get(element.attrib, "format", ""))

\* a written time is a whole number of frames of the element's frame rate
WrittenAligned(element, key) ==
    FrameAligned(TextValue(element.attrib[key]), WrittenRate(element))

\* a written time is "<int>s" or "<int>/<int>s"
WellFormed(element, key) == element.attrib[key].kind \in {"int", "frac"}

\* C3: in the reconstructed spine the first offset is 0 and each next offset
\* is the offset before it plus the duration before it, as written.
C3_OffsetsContiguous ==
    Reconstructed =>
        /\ Placements # <<>> => TextValue(Placements[1].attrib.offset) = Zero
        /\ \A i \in 1..(Len(Placements) - 1) :
              TextValue(Placements[i + 1].attrib.offset)
                  = RAdd(TextValue(Placements[i].attrib.offset),
                         TextValue(Placements[i].attrib.duration))

\* C6: the output file holds every project of the input file unchanged, and
\* one sequence more than the input file, in a project the input had not.
C6_OriginalKeptAndCutAdded ==
    (Generated /\ XmlAll(input_file, "sequence") # <<>>) =>
        /\ \A i \in 1..Len(XmlAll(input_file, "project")) :
              \E j \in 1..Len(XmlAll(output_file, "project")) :
                  XmlAll(output_file, "project")[j] = XmlAll(input_file, "project")[i]
        /\ Len(XmlAll(output_file, "sequence")) = Len(XmlAll(input_file, "sequence")) + 1
        /\ Len(XmlAll(output_file, "project")) = Len(XmlAll(input_file, "project")) + 1

\* the seconds the placements of the keep ranges start at in the new timeline
RunningSum(i) == SumSeq(RangeDurations(SubSeq(keep_ranges, 1, i - 1)))

C8_WrittenTimesOnFrames ==
    Reconstructed =>
        /\ WrittenAligned(CutSequence, "duration")
        /\ \A i \in 1..Len(Placements) :
              \A key \in {"offset", "start", "duration"} :
                  WrittenAligned(Placements[i], key)

\* C9: no output file is written with a placement whose time is malformed
\* or off the frame grid: generation fails instead.
C9_NoMisalignedCutPersisted ==
    Reconstructed =>
        \A i \in 1..Len(Placements) :
            \A key \in {"offset", "start", "duration"} :
                /\ WellFormed(Placements[i], key)
                /\ WrittenAligned(Placements[i], key)

\* C16: when no range is kept, the spine of the cut sequence that was
\* written holds no placement, and the generation ran to its end: the
\* metadata of the cleaner's mapping is written.
C16_NothingKeptEmptySpine ==
    (Reconstructed /\ keep_ranges = <<>>) =>
        /\ Placements = <<>>
        /\ metadata_file = _add_cut_metadata(timing_mapping)

\* C16 witness: a cut project was written for a transcript with no keep
\* range.
C16_Witness ==
    /\ Reconstructed
    /\ keep_ranges = <<>>
    /\ XmlAll(CutSequence, "spine") # <<>>

(***************************************************************************)
(* Properties of frame rate detection.                                     *)
(***************************************************************************)
\* _extract_frame_rate_info has run
Extracted == pc \in {"apply", "save", "generated"}

\* the name of the format resource of the input document holds a drop frame
\* indicator, in any case
NameHint ==
    LET Hinted(format_name) ==
            \E i \in 1..Len(format_name) :
                Lower(format_name[i]) \in {"2997", "5994", "df", "drop", "dropframe"}
    IN  Hinted(Get(XmlAll(input_file, "format")[1].attrib, "name", <<>>))

\* a sequence of the input document carries tcFormat="DF"
TimecodeFlag ==
    \E i \in 1..Len(XmlAll(input_file, "sequence")) :
        Get(XmlAll(input_file, "sequence")[i].attrib, "tcFormat", "") = "DF"

\* C21: the frame rate detected for the format of the project is drop frame
\* iff the format's name holds a drop frame indicator or the sequence
\* carries tcFormat="DF"; a 29.97 rate so classified is named
\* "29.97 fps Drop Frame".
C21_DropFrameClassification ==
    (Extracted /\ DictHas(project_frame_rates, "r1")) =>
        LET Classified(rate_info) ==
                /\ rate_info.is_drop_frame <=> (NameHint \/ TimecodeFlag)
                /\ (rate_info.is_drop_frame /\ Near(rate_info.rate, Rate2997)) =>
                       rate_info.name = "29.97 fps Drop Frame"
        IN  Classified(DictGet(project_frame_rates, "r1"))

\* the rates of the table of standard rates
StandardRates ==
    {<<2997, 125>>, <<24, 1>>, <<25, 1>>, <<2997, 100>>, <<30, 1>>, <<50, 1>>,
     <<2997, 50>>, <<60, 1>>}

\* the frameDuration of the format resource of the input document is a tick
\* fraction "<num>/<den>s"
TickFraction ==
    /\ "frameDuration" \in DOMAIN XmlAll(input_file, "format")[1].attrib
    /\ XmlAll(input_file, "format")[1].attrib.frameDuration.kind = "frac"
    /\ XmlAll(input_file, "format")[1].attrib.frameDuration.num > 0
    /\ XmlAll(input_file, "format")[1].attrib.frameDuration.den > 0

\* C22: the rate detected for a tick num/den is the standard rate within
\* 0.01 fps of den/num, or den/num itself when there is none, and its
\* timebase and timescale are the tick's den and num.
C22_StandardOrCustomRate ==
    (Extracted /\ TickFraction) =>
        LET Detected(tick, rate_info) ==
                LET Near01(standard) == Near(Rat(tick.den, tick.num), standard)
                IN  /\ rate_info.timebase = tick.den
                    /\ rate_info.timescale = tick.num
                    /\ IF \E standard \in StandardRates : Near01(standard)
                       THEN rate_info.rate \in StandardRates /\ Near01(rate_info.rate)
                       ELSE rate_info.rate = Rat(tick.den, tick.num)
        IN  /\ DictHas(project_frame_rates, "r1")
            /\ Detected(XmlAll(input_file, "format")[1].attrib.frameDuration,
                        DictGet(project_frame_rates, "r1"))

\* C22 witness: a tick matching no standard rate, 100/4800, gave a custom
\* rate.
C22_Witness ==
    /\ Extracted
    /\ TickFraction
    /\ DictHas(project_frame_rates, "r1")
    /\ DictGet(project_frame_rates, "r1").rate \notin StandardRates
    /\ DictGet(project_frame_rates, "r1").name = "48.000 fps"

\* no format resource of the input document gives a frame rate
Undetected ==
    \A i \in 1..Len(XmlAll(input_file, "format")) :
        "frameDuration" \notin DOMAIN XmlAll(input_file, "format")[i].attrib

\* C23: when no frame rate is detected for the project the primary frame
\* rate is the default, 29.97 drop frame.
C23_DefaultFrameRate ==
    (Extracted /\ Undetected) =>
        /\ primary_frame_rate = FRAME_RATES["29.97df"]
        /\ primary_frame_rate.is_drop_frame
        /\ primary_frame_rate.name = "29.97 fps Drop Frame"

\* C23 witness: a cut project with placements was written under the default
\* rate, so the generation did not abort.
C23_Witness ==
    /\ Reconstructed
    /\ Undetected
    /\ Placements # <<>>
    /\ primary_frame_rate = FRAME_RATES["29.97df"]

(***************************************************************************)
(* Properties of the placements, on the Elements in memory.                *)
(***************************************************************************)
\* the cut projects of the modified tree
HeapCutProjects ==
    SelectSeq(findall(heap, modified_tree, "project"),
              LAMBDA p : Get(heap[p].attrib, "uid", "")
                             \in {"auto-cut-" \o c.stamp : c \in Clock})

\* the cut project is made and its sequence has a spine
Applied ==
    /\ pc \in {"save", "generated"}
    /\ HeapCutProjects # <<>>
    /\ findall(heap, HeapCutProjects[1], "spine") # <<>>
    /\ findall(heap, original_fcpxml, "mc-clip") # <<>>

\* the Elements placed in the spine of the cut sequence
HeapPlacements == heap[find(heap, HeapCutProjects[1], "spine")].children

\* the placement of the original timeline they are cut from
OriginalClip ==
    LET Last(clips) == clips[Len(clips)]
    IN  Last(findall(heap, original_fcpxml, "mc-clip"))

\* an Element and all Elements below it
Below(element) == {IterList(heap, <<element>>)[i] :
                      i \in 1..Len(IterList(heap, <<element>>))}

TimingAndLabel == {"offset", "start", "duration", "name"}

\* C24: a placement of the cut spine equals the original placement in its
\* tag, in every attribute but offset, start, duration and name, and in all
\* of its nested children, and no Element of it is an Element of the
\* original document or of another placement.
C24_PlacementIsIndependentCopy ==
    Applied =>
        LET Copy(placement, original) ==
                /\ placement.tag = original.tag
                /\ placement.children = original.children
                /\ DOMAIN placement.attrib =
                       DOMAIN original.attrib \cup TimingAndLabel
                /\ \A key \in DOMAIN original.attrib \ TimingAndLabel :
                       placement.attrib[key] = original.attrib[key]
            clip == ToXml(heap, OriginalClip)
            document == Below(original_fcpxml)
            placements == HeapPlacements
            placed == [i \in 1..Len(placements) |-> Below(placements[i])]
        IN  \A i \in 1..Len(placements) :
                /\ Copy(ToXml(heap, placements[i]), clip)
                /\ placed[i] \cap document = {}
                /\ \A j \in 1..Len(placements) :
                       j # i => placed[i] \cap placed[j] = {}

\* C24 witness: two placements cut from a clip that has a format attribute
\* and a nested mc-source.
C24_Witness ==
    /\ Applied
    /\ Len(HeapPlacements) >= 2
    /\ "format" \in DOMAIN heap[OriginalClip].attrib
    /\ heap[OriginalClip].children # <<>>
    /\ heap[HeapPlacements[1]].attrib.start # heap[OriginalClip].attrib.start

(***************************************************************************)
(* Properties of the edited segments.                                       *)
(***************************************************************************)
\* C25: when the editing service call raised, the keep ranges used for the
\* reconstruction are exactly the cleaner's keep_ranges: none is dropped
C25_FailedEditingKeepsAllRanges ==
    (Extracted /\ editing = "failed") => keep_ranges = timing_mapping.keep_ranges

\* a segment marked keep overlaps the range
KeptOverlap(keep_range) ==
    \E i \in 1..Len(edited_segments.list) :
        LET segment == edited_segments.list[i]
        IN  /\ "keep" \in DOMAIN segment
            /\ segment.keep
            /\ RLess(segment.start, keep_range.end)
            /\ RLess(keep_range.start, segment.end)

\* C26: with a non-empty list of edited segments a keep range is retained
\* exactly when a segment marked keep overlaps it, and the retained ranges
\* are a subsequence of the cleaner's keep_ranges, in order and unchanged
C26_RetainedIffKeptOverlap ==
    (Extracted /\ edited_segments.present /\ edited_segments.list # <<>>) =>
        /\ \A i \in 1..Len(timing_mapping.keep_ranges) :
               (\E j \in 1..Len(keep_ranges) :
                    keep_ranges[j] = timing_mapping.keep_ranges[i])
               <=> KeptOverlap(timing_mapping.keep_ranges[i])
        /\ \E at \in [1..Len(keep_ranges) -> 1..Len(timing_mapping.keep_ranges)] :
               /\ \A j \in 1..Len(keep_ranges) :
                      keep_ranges[j] = timing_mapping.keep_ranges[at[j]]
               /\ \A j \in 1..Len(keep_ranges), k \in 1..Len(keep_ranges) :
                      j < k => at[j] < at[k]

\* the edit removed the first of two ranges and kept the second
C26_Witness ==
    /\ Extracted
    /\ editing = "edited"
    /\ Len(timing_mapping.keep_ranges) = 2
    /\ keep_ranges = <<timing_mapping.keep_ranges[2]>>

(***************************************************************************)
(* Properties of the keep ranges against the kept segments.                 *)
(***************************************************************************)
\* the keep ranges that contain the whole interval of the k-th kept segment
RangesAround(k) ==
    {i \in 1..Len(timing_mapping.keep_ranges) :
        /\ RLeq(timing_mapping.keep_ranges[i].start, Keeper(k).start_time)
        /\ RLeq(Keeper(k).end_time, timing_mapping.keep_ranges[i].end)}

\* C27: every kept segment's interval [start, end] lies in exactly one keep
\* range, overlapping and nested segments included, and every keep range
\* has start < end
C27_KeptSegmentsInsideOneRange ==
    Cleaned =>
        /\ \A k \in 1..Len(keeper_segments) : Cardinality(RangesAround(k)) = 1
        /\ \A i \in 1..Len(timing_mapping.keep_ranges) :
               RLess(timing_mapping.keep_ranges[i].start,
                     timing_mapping.keep_ranges[i].end)

(***************************************************************************)
(* Properties of a spine of several clips.                                  *)
(***************************************************************************)
\* the last multicam clip of the original document, in document order
LastClip == XmlAll(input_file, "mc-clip")[Len(XmlAll(input_file, "mc-clip"))]

\* C28: when the original spine holds one or more multicam clips, and maybe
\* other elements, the reconstructed spine holds exactly len(keep_ranges)
\* placements, each a copy of the last multicam clip in document order;
\* nothing cut from an earlier clip and no other spine child is in it.
C28_OnlyLastClipPlaced ==
    Reconstructed =>
        /\ Len(Placements) = Len(keep_ranges)
        /\ \A i \in 1..Len(Placements) :
               /\ Placements[i].tag = "mc-clip"
               /\ Placements[i].children = LastClip.children
               /\ Placements[i].attrib.name
                      = LastClip.attrib.name \o " - Cut " \o ToString(i)
               /\ DOMAIN Placements[i].attrib
                      = DOMAIN LastClip.attrib \cup TimingAndLabel
               /\ \A key \in DOMAIN LastClip.attrib \ TimingAndLabel :
                      Placements[i].attrib[key] = LastClip.attrib[key]

\* C28 witness: a gap and two clips in the original spine, two keep ranges
C28_Witness ==
    /\ Reconstructed
    /\ Len(XmlAll(input_file, "mc-clip")) = 2
    /\ XmlAll(input_file, "gap") # <<>>
    /\ Len(Placements) = 2

(***************************************************************************)
(* Properties of the duration of the cut sequence.                          *)
(***************************************************************************)
\* C29: the duration written on the cut sequence is the sum of the
\* durations written on its placements, for every list of keep ranges and
\* every frame rate
C29_SequenceDurationIsSumOfPlacements ==
    Reconstructed =>
        TextValue(CutSequence.attrib.duration)
            = SumSeq([i \in 1..Len(Placements) |->
                         TextValue(Placements[i].attrib.duration)])

(***************************************************************************)
(* Properties of the transcript cache.                                      *)
(***************************************************************************)
\* a run of process_multicam_clip with a method other than demo
NonDemoRun ==
    /\ pc \in {"transcription", "transcribe", "save_cache", "clean", "cleaning",
               "flow_raised"}
    /\ options.transcription_method # "demo"

\* cleaning is about to start or has started
AtCleaning == pc \in {"clean", "cleaning"}

\* how often the log holds one of the events
Count(events) == Cardinality({i \in 1..Len(log) : log[i] \in events})

Invocations == Count({"service_call", "service_raised"})

\* the run may use the cache and the cache file holds a transcript
Loadable ==
    /\ options.use_cached_transcript
    /\ ~options.force_retranscribe
    /\ cache_file.kind = "json"
    /\ cache_file.transcript # None

\* the service is invoked at most once, and exactly when no cached
\* transcript was loaded; a run on a cached transcript leaves the file alone
InvokedIffNotLoaded ==
    /\ Invocations <= 1
    /\ pc = "transcribe" => Invocations = 0
    /\ pc = "transcribe" => ~Loadable
    /\ (AtCleaning /\ Invocations = 0) =>
           /\ Loadable
           /\ transcription = cache_file.transcript
           /\ Count({"cache_write", "cache_write_failed"}) = 0

=============================================================================
